---- MODULE Spec2Model ----
(***************************************************************************)
(* vibe_dialog: the reversible-command engine (backend/commands.py) over   *)
(* the document / annotation / citation data model (backend/models.py)     *)
(* and the services that construct and mutate it (backend/services.py).    *)
(*                                                                         *)
(* Conventions                                                             *)
(*   - Optional[T] is None == << >> or Some(x) == << x >>.                 *)
(*   - str values that are searched or hashed are sequences of characters. *)
(*   - position is the Python index (-1 = nothing applied); the command it *)
(*     points at is history[position + 1] in TLA+'s 1-based sequences.     *)
(*   - Document objects live in the heap `docs` (reference = index) since  *)
(*     commands and workspaces share them by reference; Annotation objects *)
(*     live in `annos`, keyed by their uuid (create_annotation is their    *)
(*     only constructor, so object and id are in bijection).               *)
(*   - a Document a caller built for an AddDocumentCommand is held by      *)
(*     value in the command until execute() first shares it.               *)
(*   - a document's tag set is its own (field tags, tags_of = 0) or is the *)
(*     set object a command was constructed with (tags_of = the command,   *)
(*     value in `tagsets`): create_document and update_document store the  *)
(*     caller's set itself, and add_tag / remove_tag mutate it in place.   *)
(*   - datetime.now() reads the clock `now`.  A document carries its       *)
(*     created_at and updated_at; last_activity is not part of the      *)
(*     state: no property below reads it.  Spec holds the clock still (its *)
(*     properties read no timestamp); SpecTags lets it tick after every    *)
(*     call.                                                               *)
(***************************************************************************)
EXTENDS Integers, Sequences, FiniteSets, TLC

VARIABLES
    active_contexts,  \* DialogueService.active_contexts: context id -> DialogueContext
    docs,             \* heap of Document objects
    annos,            \* heap of Annotation objects, by annotation id
    files,            \* the upload directory: the set of paths that exist
    uuid_count,       \* number of uuid4() values handed out so far
    tagsets,          \* heap of the Set[str] objects a command and a document share
    history,          \* CommandHistory.history
    position,         \* CommandHistory.position
    lastCall,         \* observer: the last operation, the command it invoked, its result
    discarded,        \* observer: commands cut from history by execute_command
    failed,           \* observer: commands whose execute() raised
    now,              \* the clock datetime.now() reads
    streak,           \* observer: progress of a run of N accepted commands, then undos
    redoRun,          \* observer: progress of a run of k successful undos, then redos
    lastExec,         \* observer: the command the last call executed, and the graph before
    session,          \* the web layer's session["context_id"], by browser session
    inflight,         \* the calls of CommandHistory methods in progress, by caller
    reverted          \* observer: commands whose undo() returned True since their last execute()

vars == << active_contexts, docs, annos, files, uuid_count, tagsets, history, position,
           lastCall, discarded, failed, now, streak, redoRun, lastExec,
           session, inflight, reverted >>

-----------------------------------------------------------------------------
(* Bounds of the model *)

\* execute_command is called with at most MaxCmds accepted commands
MaxCmds == 2

\* at most MaxUuid uuid4() values are drawn (documents and annotations),
\* those of the documents a workspace starts with included
MaxUuid == 4

\* the clock of SpecTags stops here
MaxClock == 8

\* SpecSearch: the most documents a searched workspace holds, and the
\* largest max_results a caller passes
MaxDocs == 2
MaxLimit == 3

\* SpecProfile: the most calls made on one workspace
MaxViews == 12

\* SpecUpdate: the most update_document calls made on one document
MaxUpdates == 2

\* SpecRace: the most calls the two callers start between them
MaxCalls == 3

-----------------------------------------------------------------------------
(* Values *)

None == << >>
Some(x) == << x >>
Val(o) == o[1]

\* Python truthiness of an Optional[str]: None and "" are falsy
Truthy(o) == o # None /\ Val(o) # ""

\* context ids callers bind commands to; only those in OpenAtStart name a
\* workspace that create_context has made
Contexts == {"c1", "c2"}

OpenAtStart == {"c1"}

\* ids of Document objects built by the caller of AddDocumentCommand; uuid4
\* values are the positive integers, so the two never meet
GivenIds == {-1}


Tags == {"law"}

Chars == {"a", "A", "b", "|"}

Title0 == << "A", "b" >>
Content0 == << "b", "a", "b", "a" >>
Title1 == << "b" >>
Content1 == << "A" >>

Queries == { << "b", "a" >> }

\* the query whose results a workspace holds from the start
StoredQuery == << "b" >>

\* str.lower() on one character
LowerChar(c) ==
    CASE c = "A" -> "a"
      [] c = "O" -> "o"
      [] OTHER   -> c

\* str.lower()
Lower(s) == [i \in 1..Len(s) |-> LowerChar(s[i])]

\* s[i:j] with 0 <= i <= j (Python slice, 0-based, end exclusive)
Slice(s, i, j) ==
    LET hi == IF j > Len(s) THEN Len(s) ELSE j
    IN  IF i >= hi THEN << >> ELSE SubSeq(s, i + 1, hi)

\* str.find(q): the 0-based offset of the first occurrence of q in s, or -1
Find(s, q) ==
    LET hits == {p \in 0..(Len(s) - Len(q)) : Slice(s, p, p + Len(q)) = q}
    IN  IF hits = {} THEN -1 ELSE CHOOSE p \in hits : \A r \in hits : p <= r

\* q in s
Contains(s, q) == Find(s, q) >= 0

\* list.pop(i), 1-based here
SeqRemoveAt(s, i) == SubSeq(s, 1, i - 1) \o SubSeq(s, i + 1, Len(s))

\* index of the first element of s satisfying id = x, or 0
FirstIndex(s, x) ==
    LET hits == {i \in 1..Len(s) : s[i].id = x}
    IN  IF hits = {} THEN 0 ELSE CHOOSE i \in hits : \A j \in hits : i <= j

\* index of the first occurrence of x in a sequence of plain values, or 0
FirstIndexOf(s, x) ==
    LET hits == {i \in 1..Len(s) : s[i] = x}
    IN  IF hits = {} THEN 0 ELSE CHOOSE i \in hits : \A j \in hits : i <= j

-----------------------------------------------------------------------------
(* models.py: Document, Annotation, DialogueContext *)

\* Document(id=..., title=..., content=...) with the dataclass defaults
NewDocument(id, title, content) ==
    [ id |-> id, title |-> title, content |-> content,
      file_path |-> None, file_name |-> None, file_type |-> None,
      file_size |-> None,
      annotations |-> << >>, citations |-> << >>, tags |-> {}, tags_of |-> 0,
      created_at |-> now, updated_at |-> now ]

\* DialogueContext(id=...) with the dataclass defaults; `documents` keeps the
\* dict's insertion order as a sequence of (key, object reference) pairs
NewContext ==
    [ documents |-> << >>, active_search_results |-> [q \in {} |-> << >>],
      user_profile |-> None, active_document_id |-> None ]

\* UserProfile(id=..., name=..., email=...) with the dataclass defaults
NewProfile == [ recently_viewed_documents |-> << >> ]

RecentCap == 10

\* list.remove(x): the list without its first x
ListRemove(l, x) == SeqRemoveAt(l, FirstIndexOf(l, x))

\* variant: the list is cut only once it is longer than 11
UserProfile_add_viewed_document_CutLate(p, document_id) ==
    LET l0 == p.recently_viewed_documents
        l1 == IF FirstIndexOf(l0, document_id) > 0
              THEN ListRemove(l0, document_id) ELSE l0
        l2 == << document_id >> \o l1
    IN  [p EXCEPT !.recently_viewed_documents =
            IF Len(l2) > RecentCap + 1 THEN SubSeq(l2, 1, RecentCap) ELSE l2]

\* UserProfile.add_viewed_document
UserProfile_add_viewed_document(p, document_id) ==
    LET l0 == p.recently_viewed_documents
        l1 == IF FirstIndexOf(l0, document_id) > 0
              THEN ListRemove(l0, document_id) ELSE l0
        l2 == << document_id >> \o l1
    IN  [p EXCEPT !.recently_viewed_documents =
            IF Len(l2) > RecentCap THEN SubSeq(l2, 1, RecentCap) ELSE l2]

\* Document.add_annotation
Document_add_annotation(d, aid) ==
    [d EXCEPT !.annotations = Append(@, aid), !.updated_at = now]

\* Document.remove_annotation -> [ok, doc]
Document_remove_annotation(d, aid) ==
    LET i == FirstIndexOf(d.annotations, aid)
    IN  IF i > 0
        THEN [ok |-> TRUE, doc |-> [d EXCEPT !.annotations = SeqRemoveAt(@, i),
                                             !.updated_at = now]]
        ELSE [ok |-> FALSE, doc |-> d]

\* Document.add_citation
Document_add_citation(d, cit) ==
    [d EXCEPT !.citations = Append(@, cit), !.updated_at = now]

\* Document.remove_citation -> [ok, doc]
Document_remove_citation(d, citation_id) ==
    LET i == FirstIndex(d.citations, citation_id)
    IN  IF i > 0
        THEN [ok |-> TRUE, doc |-> [d EXCEPT !.citations = SeqRemoveAt(@, i),
                                             !.updated_at = now]]
        ELSE [ok |-> FALSE, doc |-> d]

\* Document.add_tag
Document_add_tag(d, tag) ==
    [d EXCEPT !.tags = @ \cup {tag}, !.updated_at = now]

\* variant: updated_at is refreshed whether or not the tag was there
Document_remove_tag_AlwaysStamps(d, tag) ==
    [ok |-> tag \in d.tags,
     doc |-> [d EXCEPT !.tags = @ \ {tag}, !.updated_at = now]]

\* Document.remove_tag -> [ok, doc]
Document_remove_tag(d, tag) ==
    IF tag \in d.tags
    THEN [ok |-> TRUE, doc |-> [d EXCEPT !.tags = @ \ {tag}, !.updated_at = now]]
    ELSE [ok |-> FALSE, doc |-> d]

\* DialogueContext.add_document: self.documents[document.id] = document
Context_add_document(c, id, ref) ==
    LET i == FirstIndex(c.documents, id)
    IN  IF i > 0
        THEN [c EXCEPT !.documents[i].ref = ref]
        ELSE [c EXCEPT !.documents = Append(@, [id |-> id, ref |-> ref])]

\* DialogueContext.get_document -> Optional[reference]
Context_get_document(c, id) ==
    LET i == FirstIndex(c.documents, id)
    IN  IF i > 0 THEN Some(c.documents[i].ref) ELSE None

\* variant: remove_document deletes the oldest entry of the dict
Context_remove_document_Oldest(c, id) ==
    IF Len(c.documents) > 0
    THEN [ok |-> TRUE, ctx |-> [c EXCEPT !.documents = SeqRemoveAt(@, 1)]]
    ELSE [ok |-> FALSE, ctx |-> c]

\* DialogueContext.remove_document -> [ok, ctx]
Context_remove_document(c, id) ==
    LET i == FirstIndex(c.documents, id)
    IN  IF i > 0
        THEN [ok |-> TRUE, ctx |-> [c EXCEPT !.documents = SeqRemoveAt(@, i)]]
        ELSE [ok |-> FALSE, ctx |-> c]

\* DialogueContext.search_documents: store the results of a query
Context_search_documents(c, query, results) ==
    [c EXCEPT !.active_search_results =
        [q \in (DOMAIN @) \cup {query} |-> IF q = query THEN results ELSE @[q]]]

\* variant: the view is recorded before the id is looked up
Context_set_active_document_RecordsFirst(c, doc_id) ==
    LET seen == IF doc_id # None /\ c.user_profile # None
                THEN [c EXCEPT !.user_profile =
                         Some(UserProfile_add_viewed_document(Val(@), Val(doc_id)))]
                ELSE c
    IN  IF doc_id = None \/ FirstIndex(c.documents, Val(doc_id)) > 0
        THEN [ok |-> TRUE, ctx |-> [seen EXCEPT !.active_document_id = doc_id]]
        ELSE [ok |-> FALSE, ctx |-> seen]

\* DialogueContext.set_active_document -> [ok, ctx]; document ids are
\* non-empty strings, so `if doc_id` is `doc_id is not None`
Context_set_active_document(c, doc_id) ==
    IF doc_id = None \/ FirstIndex(c.documents, Val(doc_id)) > 0
    THEN [ ok |-> TRUE,
           ctx |-> [c EXCEPT
                      !.active_document_id = doc_id,
                      !.user_profile =
                         IF doc_id # None /\ @ # None
                         THEN Some(UserProfile_add_viewed_document(Val(@), Val(doc_id)))
                         ELSE @] ]
    ELSE [ok |-> FALSE, ctx |-> c]

\* DialogueContext.clear_search_results(query) with query given or None
Context_clear_search_results(c, query) ==
    IF query = None
    THEN [c EXCEPT !.active_search_results = [q \in {} |-> << >>]]
    ELSE [c EXCEPT !.active_search_results =
            [q \in (DOMAIN @) \ {Val(query)} |-> @[q]]]

-----------------------------------------------------------------------------
(* services.py: DocumentService.  A world w is the record                   *)
(*   [ctx, docs, annos, files, uuid, sets] of the six program variables,    *)
(* with the flag `raised`: an exception is propagating out of the call.     *)

\* a Set[str] argument is a handle [key, init]: the object's identity and its
\* value when built; once a document shares it, its value is w.sets[key]
SetValue(w, h) == IF h.key \in DOMAIN w.sets THEN w.sets[h.key] ELSE h.init

\* the world in which the set object h is shared
Shared(w, h) ==
    [w EXCEPT !.sets = [k \in (DOMAIN @) \cup {h.key} |->
                           IF k = h.key THEN SetValue(w, h) ELSE @[k]]]

\* document.tags, read
GetTags(w, d) == IF d.tags_of = 0 THEN d.tags ELSE w.sets[d.tags_of]

\* the document object as its methods see it, tags read through
View(w, ref) == [w.docs[ref] EXCEPT !.tags = GetTags(w, w.docs[ref])]

\* the document object after a method left it as d: document.tags mutated
\* in place to hold d.tags, updated_at as the method set it
StoreTags(w, ref, d) ==
    IF w.docs[ref].tags_of = 0
    THEN [w EXCEPT !.docs[ref].tags = d.tags,
                   !.docs[ref].updated_at = d.updated_at]
    ELSE [w EXCEPT !.sets[w.docs[ref].tags_of] = d.tags,
                   !.docs[ref].updated_at = d.updated_at]

\* werkzeug's secure_filename on the file names the model uploads
SecureFilename(name) ==
    CASE name = "my doc.txt" -> "my_doc.txt"
      [] name = "../a.txt"   -> "a.txt"
      [] OTHER               -> name

\* str(self.UPLOAD_DIR / f"{doc_id}_{secure_name}")
UploadPath(doc_id, file_name) ==
    [dir |-> "uploads", id |-> doc_id, name |-> SecureFilename(file_name)]

\* file.save(file_path) / f.write(file.read()): writes what is left of the
\* stream and leaves the stream at its end; a write that fails raises OSError
\* and creates no file
FileSave(f) ==
    [ size |-> IF f.consumed THEN 0 ELSE f.size,
      file |-> IF f.broken THEN f ELSE [f EXCEPT !.consumed = TRUE],
      raised |-> f.broken ]

\* DocumentService.create_document -> [w, ref, file]
create_document(w, title, content, file, file_name, file_type, tags) ==
    LET doc_id == w.uuid + 1
        stored == file # None /\ Truthy(file_name)
        saved == IF stored THEN FileSave(Val(file))
                 ELSE [size |-> 0, file |-> 0, raised |-> FALSE]
        path == UploadPath(doc_id, Val(file_name))
        given == tags # None /\ SetValue(w, Val(tags)) # {}
        w1 == IF given THEN Shared(w, Val(tags)) ELSE w
        doc == [ NewDocument(doc_id, title, content) EXCEPT
                   !.file_path = IF stored THEN Some(path) ELSE None,
                   !.file_name = file_name,
                   !.file_type = file_type,
                   !.file_size = IF stored THEN Some(saved.size) ELSE None,
                   !.tags_of = IF given THEN Val(tags).key ELSE 0 ]
    IN  IF saved.raised
        THEN [ w |-> [w EXCEPT !.uuid = doc_id, !.raised = TRUE],
               ref |-> 0, file |-> file ]
        ELSE [ w |-> [w1 EXCEPT !.uuid = doc_id,
                                !.docs = Append(@, doc),
                                !.files = IF stored THEN @ \cup {path} ELSE @],
               ref |-> Len(w.docs) + 1,
               file |-> IF stored THEN Some(saved.file) ELSE file ]

\* DocumentService.update_document -> [w, file]
update_document(w, ref, title, content, file, file_name, file_type, tags) ==
    LET d0 == w.docs[ref]
        w1 == IF tags # None THEN Shared(w, Val(tags)) ELSE w
        d1 == [ d0 EXCEPT
                  !.title = IF title # None THEN Val(title) ELSE @,
                  !.content = IF content # None THEN Val(content) ELSE @,
                  !.tags = IF tags # None THEN {} ELSE @,
                  !.tags_of = IF tags # None THEN Val(tags).key ELSE @ ]
        stored == file # None /\ Truthy(file_name)
        saved == IF stored THEN FileSave(Val(file))
                 ELSE [size |-> 0, file |-> 0, raised |-> FALSE]
        path == UploadPath(d0.id, Val(file_name))
        removed == IF d0.file_path # None /\ Val(d0.file_path) \in w.files
                   THEN w.files \ {Val(d0.file_path)} ELSE w.files
        d2 == [ d1 EXCEPT !.file_path = Some(path),
                          !.file_name = file_name,
                          !.file_type = file_type,
                          !.file_size = Some(saved.size) ]
        stamped(d) == [d EXCEPT !.updated_at = now]
    IN  IF stored /\ saved.raised
        THEN [ w |-> [w1 EXCEPT !.docs[ref] = d1, !.files = removed,
                                !.raised = TRUE],
               file |-> file ]
        ELSE IF stored
        THEN [ w |-> [w1 EXCEPT !.docs[ref] = stamped(d2),
                                !.files = removed \cup {path}],
               file |-> Some(saved.file) ]
        ELSE [ w |-> [w1 EXCEPT !.docs[ref] = stamped(d1)], file |-> file ]

\* DialogueService.set_active_document -> [ok, w]
set_active_document(w, context_id, document_id) ==
    IF context_id \in DOMAIN w.ctx
    THEN LET r == Context_set_active_document(w.ctx[context_id], document_id)
         IN  [ok |-> r.ok, w |-> [w EXCEPT !.ctx[context_id] = r.ctx]]
    ELSE [ok |-> FALSE, w |-> w]

\* the string a citation's id is the md5 of: f"{text}|{source}|{page}|{section}|{url}"
\* (an absent field is formatted as the text None)
FormatField(o) == IF o = None THEN << "N", "o", "n", "e" >> ELSE Val(o)

HashInput(text, source, page, section, url) ==
    text \o << "|" >> \o source \o << "|" >> \o FormatField(page)
         \o << "|" >> \o FormatField(section) \o << "|" >> \o FormatField(url)

create_citation_PerCall(text, source, page, section, url) ==
    [ id |-> HashInput(text, source, page, section, url)
                 \o (IF position < 0 THEN << >> ELSE << "x" >>),
      text |-> text, source |-> source, page |-> page,
      section |-> section, url |-> url ]

\* DocumentService.create_citation: the id is a hash of HashInput, modelled
\* as HashInput itself (equal inputs, equal ids)
create_citation(text, source, page, section, url) ==
    [ id |-> HashInput(text, source, page, section, url),
      text |-> text, source |-> source, page |-> page,
      section |-> section, url |-> url ]

\* DocumentService.create_annotation -> [w, id]; citations defaults to []
create_annotation(w, document_id) ==
    LET annotation_id == w.uuid + 1
    IN  [ w |-> [w EXCEPT !.uuid = annotation_id,
                          !.annos = [a \in (DOMAIN @) \cup {annotation_id} |->
                                       IF a = annotation_id
                                       THEN [document_id |-> document_id,
                                             citations |-> << >>]
                                       ELSE @[a]]],
          id |-> annotation_id ]

\* DocumentService.add_annotation_to_document
add_annotation_to_document(w, ref, aid) ==
    [w EXCEPT !.docs[ref] = Document_add_annotation(@, aid)]

\* DocumentService.remove_annotation_from_document -> [ok, w]
remove_annotation_from_document(w, ref, aid) ==
    LET r == Document_remove_annotation(w.docs[ref], aid)
    IN  [ok |-> r.ok, w |-> [w EXCEPT !.docs[ref] = r.doc]]

\* DocumentService.add_citation_to_document
add_citation_to_document(w, ref, cit) ==
    [w EXCEPT !.docs[ref] = Document_add_citation(@, cit)]

\* DocumentService.add_tag_to_document
add_tag_to_document(w, ref, tag) ==
    StoreTags(w, ref, Document_add_tag(View(w, ref), tag))

\* DocumentService.remove_tag_from_document -> [ok, w]
remove_tag_from_document(w, ref, tag) ==
    LET r == Document_remove_tag(View(w, ref), tag)
    IN  [ok |-> r.ok, w |-> StoreTags(w, ref, r.doc)]

\* DocumentService.delete_file -> [ok, w]
delete_file(w, ref) ==
    LET d == w.docs[ref]
    IN  IF d.file_path # None /\ Val(d.file_path) \in w.files
        THEN [ ok |-> TRUE,
               w |-> [w EXCEPT !.files = @ \ {Val(d.file_path)},
                               !.docs[ref] = [@ EXCEPT !.file_path = None,
                                                       !.file_name = None,
                                                       !.file_type = None,
                                                       !.file_size = None,
                                                       !.updated_at = now]] ]
        ELSE [ok |-> FALSE, w |-> w]

-----------------------------------------------------------------------------
(* services.py: SearchService (LOCAL provider).  Relevance scores are in    *)
(* tenths: 1.0 is 10 and 0.8 is 8.                                          *)

TitleScore == 10
ContentScore == 8
ContextPad == 50
DefaultMaxResults == 10

Ellipsis == << ".", ".", "." >>

Max(a, b) == IF a >= b THEN a ELSE b
Min(a, b) == IF a <= b THEN a ELSE b

\* variant: the title is compared without lower-casing it
TitleHit_CaseSensitive(doc_id, doc, query) ==
    IF Contains(doc.title, Lower(query))
    THEN << [ document_id |-> doc_id, relevance_score |-> TitleScore,
              matched_text |-> doc.title, context |-> doc.title,
              page_number |-> None, position |-> None ] >>
    ELSE << >>

\* the title result of one document, as a list of zero or one results
TitleHit(doc_id, doc, query) ==
    IF Contains(Lower(doc.title), Lower(query))
    THEN << [ document_id |-> doc_id, relevance_score |-> TitleScore,
              matched_text |-> doc.title, context |-> doc.title,
              page_number |-> None, position |-> None ] >>
    ELSE << >>

\* variant: the closing ellipsis test is <= instead of <
ContentHit_SuffixAlways(doc_id, doc, query) ==
    LET content_lower == Lower(doc.content)
        pos == Find(content_lower, Lower(query))
        context_start == Max(0, pos - ContextPad)
        context_end == Min(Len(doc.content), pos + Len(query) + ContextPad)
        window == Slice(doc.content, context_start, context_end)
        context == (IF context_start > 0 THEN Ellipsis ELSE << >>) \o window
                   \o (IF context_end <= Len(doc.content) THEN Ellipsis ELSE << >>)
    IN  IF Contains(content_lower, Lower(query))
        THEN << [ document_id |-> doc_id, relevance_score |-> ContentScore,
                  matched_text |-> Slice(doc.content, pos, pos + Len(query)),
                  context |-> context, page_number |-> None,
                  position |-> Some([start |-> pos, end |-> pos + Len(query)]) ] >>
        ELSE << >>

\* the content result of one document, as a list of zero or one results
ContentHit(doc_id, doc, query) ==
    LET content_lower == Lower(doc.content)
        pos == Find(content_lower, Lower(query))
        context_start == Max(0, pos - ContextPad)
        context_end == Min(Len(doc.content), pos + Len(query) + ContextPad)
        window == Slice(doc.content, context_start, context_end)
        context == (IF context_start > 0 THEN Ellipsis ELSE << >>) \o window
                   \o (IF context_end < Len(doc.content) THEN Ellipsis ELSE << >>)
    IN  IF Contains(content_lower, Lower(query))
        THEN << [ document_id |-> doc_id, relevance_score |-> ContentScore,
                  matched_text |-> Slice(doc.content, pos, pos + Len(query)),
                  context |-> context, page_number |-> None,
                  position |-> Some([start |-> pos, end |-> pos + Len(query)]) ] >>
        ELSE << >>

RECURSIVE CollectHits(_, _, _, _)
\* the loop over documents.items(), from the i-th entry on
CollectHits(w, documents, query, i) ==
    IF i > Len(documents) THEN << >>
    ELSE LET e == documents[i]
             d == w.docs[e.ref]
         IN  TitleHit(e.id, d, query) \o ContentHit(e.id, d, query)
             \o CollectHits(w, documents, query, i + 1)

\* s[::-1]
Reverse(s) == [i \in 1..Len(s) |-> s[Len(s) + 1 - i]]

RECURSIVE SortByScoreDesc_ThenReversed(_)
\* variant: sorted ascending and then reversed, which turns ties around
SortByScoreDesc_ThenReversed(rs) ==
    IF rs = << >> THEN << >>
    ELSE LET top == CHOOSE x \in {rs[i].relevance_score : i \in 1..Len(rs)} :
                        \A i \in 1..Len(rs) : rs[i].relevance_score <= x
             IsTop(r) == r.relevance_score = top
             NotTop(r) == r.relevance_score # top
         IN  Reverse(SelectSeq(rs, IsTop))
             \o SortByScoreDesc_ThenReversed(SelectSeq(rs, NotTop))

RECURSIVE SortByScoreDesc(_)
\* results.sort(key=relevance_score, reverse=True): a stable sort
SortByScoreDesc(rs) ==
    IF rs = << >> THEN << >>
    ELSE LET top == CHOOSE x \in {rs[i].relevance_score : i \in 1..Len(rs)} :
                        \A i \in 1..Len(rs) : rs[i].relevance_score <= x
             IsTop(r) == r.relevance_score = top
             NotTop(r) == r.relevance_score # top
         IN  SelectSeq(rs, IsTop) \o SortByScoreDesc(SelectSeq(rs, NotTop))

\* SearchService._local_search
local_search(w, query, documents, max_results) ==
    Slice(SortByScoreDesc(CollectHits(w, documents, query, 1)), 0, max_results)

\* "[Semantic Search] " and "[Hybrid Search] "
SemanticMarker ==
    << "[", "S", "e", "m", "a", "n", "t", "i", "c", " ", "S", "e", "a", "r", "c", "h", "]", " " >>

HybridMarker ==
    << "[", "H", "y", "b", "r", "i", "d", " ", "S", "e", "a", "r", "c", "h", "]", " " >>

\* SearchService._semantic_search
semantic_search(w, query, documents, max_results) ==
    LET results == local_search(w, query, documents, max_results)
    IN  [i \in 1..Len(results) |->
           [results[i] EXCEPT !.context = SemanticMarker \o @]]

RECURSIVE Combine(_, _, _, _, _)
\* the loop of _hybrid_search over local_results + semantic_results, from
\* the i-th result on
Combine(all, i, seen_doc_ids, combined_results, max_results) ==
    IF i > Len(all) THEN combined_results
    ELSE IF all[i].document_id \notin seen_doc_ids
    THEN LET out == Append(combined_results,
                           [all[i] EXCEPT !.context = HybridMarker \o @])
         IN  IF Len(out) >= max_results THEN out
             ELSE Combine(all, i + 1, seen_doc_ids \cup {all[i].document_id},
                          out, max_results)
    ELSE Combine(all, i + 1, seen_doc_ids, combined_results, max_results)

\* variant: the seen ids are per provider, so a document met by both lists
\* is taken twice
hybrid_search_NoDedup(w, query, documents, max_results) ==
    LET local == local_search(w, query, documents, max_results)
        semantic == semantic_search(w, query, documents, max_results)
    IN  Slice(Combine(local, 1, {}, << >>, max_results)
              \o Combine(semantic, 1, {}, << >>, max_results), 0, max_results)

\* SearchService._hybrid_search
hybrid_search(w, query, documents, max_results) ==
    Combine(local_search(w, query, documents, max_results)
            \o semantic_search(w, query, documents, max_results),
            1, {}, << >>, max_results)

\* a filters mapping is None or a record of its recognised keys, each None
\* when the key is missing, and `other`: an unrecognised key is present.  A
\* date bound is [iso, t]: whether datetime.fromisoformat accepts the string,
\* whether it carries a UTC offset, and the instant it names.  created_at
\* comes from datetime.now() and carries no offset: comparing it with a bound
\* that does raises TypeError, which the loop catches like a parse error
EmptyFilters(f) ==
    \/ f = None
    \/ /\ Val(f).tags = None /\ Val(f).date_from = None
       /\ Val(f).date_to = None /\ Val(f).has_file = None /\ ~Val(f).other

\* variant: a document must carry every tag of the filter
Include_AllTags(w, d, f) ==
    /\ (f.tags # None /\ Val(f.tags) # {}) =>
           Val(f.tags) \subseteq GetTags(w, d)
    /\ (f.date_from # None /\ Val(f.date_from).iso /\ ~Val(f.date_from).aware) =>
           ~(d.created_at < Val(f.date_from).t)
    /\ (f.date_to # None /\ Val(f.date_to).iso /\ ~Val(f.date_to).aware) =>
           ~(d.created_at > Val(f.date_to).t)
    /\ f.has_file # None =>
           /\ Val(f.has_file) => d.file_path # None
           /\ ~Val(f.has_file) => d.file_path = None

\* the body of the loop of _apply_filters: is the document kept
Include(w, d, f) ==
    /\ (f.tags # None /\ Val(f.tags) # {}) =>
           (Val(f.tags) \cap GetTags(w, d)) # {}
    /\ (f.date_from # None /\ Val(f.date_from).iso /\ ~Val(f.date_from).aware) =>
           ~(d.created_at < Val(f.date_from).t)
    /\ (f.date_to # None /\ Val(f.date_to).iso /\ ~Val(f.date_to).aware) =>
           ~(d.created_at > Val(f.date_to).t)
    /\ f.has_file # None =>
           /\ Val(f.has_file) => d.file_path # None
           /\ ~Val(f.has_file) => d.file_path = None

\* SearchService._apply_filters
apply_filters(w, documents, filters) ==
    IF EmptyFilters(filters) THEN documents
    ELSE LET Kept(e) == Include(w, w.docs[e.ref], Val(filters))
         IN  SelectSeq(documents, Kept)

\* SearchService.search; provider None is the service's default, LOCAL, and
\* a provider that is none of the three falls back to LOCAL
search(w, query, documents, provider, max_results, filters) ==
    LET filtered_docs == apply_filters(w, documents, filters)
    IN  CASE provider = Some("SEMANTIC") ->
               semantic_search(w, query, filtered_docs, max_results)
          [] provider = Some("HYBRID") ->
               hybrid_search(w, query, filtered_docs, max_results)
          [] OTHER -> local_search(w, query, filtered_docs, max_results)

-----------------------------------------------------------------------------
(* commands.py: the command catalog.  A command is a record holding its     *)
(* constructor arguments and the fields execute() fills in; execute and     *)
(* undo map (command, world) to [ok, w, c]: the returned flag, the world    *)
(* and the command object afterwards.                                       *)

\* self.tags as an argument: the command's own set object
TagsArg(c) ==
    IF c.tags = None THEN None ELSE Some([key |-> c.cid, init |-> Val(c.tags)])

Fail(c, w) == [ok |-> FALSE, w |-> w, c |-> c]

\* context = get_context(context_id); document = context.get_document(id):
\* the reference of the document, None when either is absent
LookupDocument(w, context_id, document_id) ==
    IF context_id \in DOMAIN w.ctx
    THEN Context_get_document(w.ctx[context_id], document_id)
    ELSE None

\* AddDocumentCommand.execute.  self.document is the Document the caller
\* built: until the command first adds it to a workspace nothing else refers
\* to it, so it is kept by value in c.built and enters the heap (c.document
\* becomes its reference) when it is first shared.
AddDocumentCommand_execute(c, w) ==
    IF c.context_id \in DOMAIN w.ctx
    THEN LET ref == IF c.document # None THEN Val(c.document) ELSE Len(w.docs) + 1
             w1 == IF c.document # None THEN w
                   ELSE [w EXCEPT !.docs = Append(@, c.built)]
         IN  [ ok |-> TRUE,
               w |-> [w1 EXCEPT !.ctx[c.context_id] =
                         Context_add_document(@, c.built.id, ref)],
               c |-> [c EXCEPT !.document = Some(ref)] ]
    ELSE Fail(c, w)

\* AddDocumentCommand.undo
AddDocumentCommand_undo(c, w) ==
    IF c.context_id \in DOMAIN w.ctx
    THEN LET r == Context_remove_document(w.ctx[c.context_id], c.built.id)
         IN  [ok |-> r.ok, w |-> [w EXCEPT !.ctx[c.context_id] = r.ctx], c |-> c]
    ELSE Fail(c, w)

\* CreateDocumentCommand.execute
CreateDocumentCommand_execute(c, w) ==
    IF c.context_id \in DOMAIN w.ctx
    THEN LET r == create_document(w, c.title, c.content, c.file, c.file_name,
                                  c.file_type, TagsArg(c))
         IN  IF r.w.raised THEN Fail(c, r.w)
             ELSE [ ok |-> TRUE,
                    w |-> [r.w EXCEPT !.ctx[c.context_id] =
                              Context_add_document(@, r.w.docs[r.ref].id, r.ref)],
                    c |-> [c EXCEPT !.document = Some(r.ref), !.file = r.file] ]
    ELSE Fail(c, w)

\* CreateDocumentCommand.undo
CreateDocumentCommand_undo(c, w) ==
    IF c.document # None /\ c.context_id \in DOMAIN w.ctx
    THEN LET ref == Val(c.document)
             d == w.docs[ref]
             w1 == IF d.file_path # None /\ Val(d.file_path) \in w.files
                   THEN delete_file(w, ref).w ELSE w
             r == Context_remove_document(w1.ctx[c.context_id], d.id)
         IN  [ok |-> r.ok, w |-> [w1 EXCEPT !.ctx[c.context_id] = r.ctx], c |-> c]
    ELSE Fail(c, w)

\* UpdateDocumentCommand.execute
UpdateDocumentCommand_execute(c, w) ==
    LET found == LookupDocument(w, c.context_id, c.document_id)
    IN  IF found # None
        THEN LET ref == Val(found)
                 d == w.docs[ref]
                 r == update_document(w, ref, c.title, c.content, c.file,
                                      c.file_name, c.file_type, TagsArg(c))
             IN  [ ok |-> ~r.w.raised, w |-> r.w,
                   c |-> [c EXCEPT !.old_title = Some(d.title),
                                   !.old_content = Some(d.content),
                                   !.old_file_path = d.file_path,
                                   !.old_file_name = d.file_name,
                                   !.old_file_type = d.file_type,
                                   !.old_file_size = d.file_size,
                                   !.old_tags = Some(GetTags(w, d)),
                                   !.file = r.file] ]
        ELSE Fail(c, w)

\* variant: undo() restores title and content and leaves the tags
RestoreAttributes_NotTags(c, d) ==
    [d EXCEPT
       !.title = IF c.old_title # None THEN Val(c.old_title) ELSE @,
       !.content = IF c.old_content # None THEN Val(c.old_content) ELSE @]

\* UpdateDocumentCommand.undo, "Restore other attributes"
RestoreAttributes(c, d) ==
    [d EXCEPT
       !.title = IF c.old_title # None THEN Val(c.old_title) ELSE @,
       !.content = IF c.old_content # None THEN Val(c.old_content) ELSE @,
       !.tags = IF c.old_tags # None THEN Val(c.old_tags) ELSE @,
       !.tags_of = IF c.old_tags # None THEN 0 ELSE @]

\* UpdateDocumentCommand.undo.  document.tags becomes the old_tags object,
\* which execute() replaces by a new copy before undo() reads it again: the
\* document holds it as its own set.
UpdateDocumentCommand_undo(c, w) ==
    LET found == LookupDocument(w, c.context_id, c.document_id)
    IN  IF found # None
        THEN LET ref == Val(found)
                 d == w.docs[ref]
                 replaced == c.file # None /\ d.file_path # c.old_file_path
                 files1 == IF replaced /\ d.file_path # None
                              /\ Val(d.file_path) \in w.files
                           THEN w.files \ {Val(d.file_path)} ELSE w.files
                 d1 == IF replaced
                       THEN [d EXCEPT !.file_path = c.old_file_path,
                                      !.file_name = c.old_file_name,
                                      !.file_type = c.old_file_type,
                                      !.file_size = c.old_file_size]
                       ELSE d
                 d2 == [RestoreAttributes(c, d1) EXCEPT !.updated_at = now]
             IN  [ ok |-> TRUE,
                   w |-> [w EXCEPT !.docs[ref] = d2, !.files = files1],
                   c |-> c ]
        ELSE Fail(c, w)

\* AddAnnotationCommand.execute
AddAnnotationCommand_execute(c, w) ==
    LET found == LookupDocument(w, c.context_id, c.document_id)
    IN  IF found # None
        THEN LET r == create_annotation(w, c.document_id)
             IN  [ ok |-> TRUE,
                   w |-> add_annotation_to_document(r.w, Val(found), r.id),
                   c |-> [c EXCEPT !.annotation = Some(r.id)] ]
        ELSE Fail(c, w)

\* AddAnnotationCommand.undo
AddAnnotationCommand_undo(c, w) ==
    LET found == LookupDocument(w, c.context_id, c.document_id)
    IN  IF c.annotation # None /\ found # None
        THEN LET r == remove_annotation_from_document(w, Val(found),
                                                      Val(c.annotation))
             IN  [ok |-> r.ok, w |-> r.w, c |-> c]
        ELSE Fail(c, w)

\* RemoveAnnotationCommand.execute
RemoveAnnotationCommand_execute(c, w) ==
    LET found == LookupDocument(w, c.context_id, c.document_id)
    IN  IF found # None
        THEN LET d == w.docs[Val(found)]
                 c1 == IF FirstIndexOf(d.annotations, c.annotation_id) > 0
                       THEN [c EXCEPT !.removed_annotation = Some(c.annotation_id)]
                       ELSE c
             IN  IF c1.removed_annotation # None
                 THEN LET r == remove_annotation_from_document(
                                   w, Val(found), c.annotation_id)
                      IN  [ok |-> r.ok, w |-> r.w, c |-> c1]
                 ELSE Fail(c1, w)
        ELSE Fail(c, w)

\* RemoveAnnotationCommand.undo
RemoveAnnotationCommand_undo(c, w) ==
    LET found == LookupDocument(w, c.context_id, c.document_id)
    IN  IF c.removed_annotation # None /\ found # None
        THEN [ ok |-> TRUE,
               w |-> add_annotation_to_document(w, Val(found),
                                                Val(c.removed_annotation)),
               c |-> c ]
        ELSE Fail(c, w)

\* AddCitationCommand.execute
AddCitationCommand_execute(c, w) ==
    LET found == LookupDocument(w, c.context_id, c.document_id)
    IN  IF found # None
        THEN LET ref == Val(found)
                 cit == create_citation(c.text, c.source, c.page, c.section, c.url)
                 c1 == [c EXCEPT !.citation = Some(cit)]
             IN  IF c.annotation_id # None
                 THEN IF FirstIndexOf(w.docs[ref].annotations, Val(c.annotation_id)) > 0
                      THEN [ ok |-> TRUE,
                             w |-> [w EXCEPT !.annos[Val(c.annotation_id)].citations =
                                                Append(@, cit)],
                             c |-> c1 ]
                      ELSE Fail(c1, w)
                 ELSE [ ok |-> TRUE,
                        w |-> add_citation_to_document(w, ref, cit),
                        c |-> c1 ]
        ELSE Fail(c, w)

\* AddCitationCommand.undo
AddCitationCommand_undo(c, w) ==
    LET found == LookupDocument(w, c.context_id, c.document_id)
    IN  IF c.citation # None /\ found # None
        THEN LET ref == Val(found)
                 cit == Val(c.citation)
             IN  IF c.annotation_id # None
                 THEN LET aid == Val(c.annotation_id)
                          attached == FirstIndexOf(w.docs[ref].annotations, aid) > 0
                          i == IF attached
                               THEN FirstIndex(w.annos[aid].citations, cit.id)
                               ELSE 0
                      IN  IF i > 0
                          THEN [ ok |-> TRUE,
                                 w |-> [w EXCEPT !.annos[aid].citations =
                                                    SeqRemoveAt(@, i)],
                                 c |-> c ]
                          ELSE Fail(c, w)
                 ELSE LET r == Document_remove_citation(w.docs[ref], cit.id)
                      IN  [ok |-> r.ok, w |-> [w EXCEPT !.docs[ref] = r.doc], c |-> c]
        ELSE Fail(c, w)

\* AddTagCommand.execute
AddTagCommand_execute(c, w) ==
    LET found == LookupDocument(w, c.context_id, c.document_id)
    IN  IF found # None
        THEN [ok |-> TRUE, w |-> add_tag_to_document(w, Val(found), c.tag), c |-> c]
        ELSE Fail(c, w)

\* AddTagCommand.undo
AddTagCommand_undo(c, w) ==
    LET found == LookupDocument(w, c.context_id, c.document_id)
    IN  IF found # None
        THEN LET r == remove_tag_from_document(w, Val(found), c.tag)
             IN  [ok |-> r.ok, w |-> r.w, c |-> c]
        ELSE Fail(c, w)

\* RemoveTagCommand.execute that reports success whether or not the tag was there
RemoveTagCommand_execute_AlwaysTrue(c, w) ==
    LET found == LookupDocument(w, c.context_id, c.document_id)
    IN  IF found # None
        THEN LET r == remove_tag_from_document(w, Val(found), c.tag)
             IN  [ ok |-> TRUE, w |-> r.w,
                   c |-> [c EXCEPT !.tag_was_present =
                             c.tag \in GetTags(w, w.docs[Val(found)])] ]
        ELSE Fail(c, w)

\* RemoveTagCommand.execute
RemoveTagCommand_execute(c, w) ==
    LET found == LookupDocument(w, c.context_id, c.document_id)
    IN  IF found # None
        THEN LET r == remove_tag_from_document(w, Val(found), c.tag)
             IN  [ ok |-> r.ok, w |-> r.w,
                   c |-> [c EXCEPT !.tag_was_present =
                             c.tag \in GetTags(w, w.docs[Val(found)])] ]
        ELSE Fail(c, w)

\* RemoveTagCommand.undo
RemoveTagCommand_undo(c, w) ==
    LET found == LookupDocument(w, c.context_id, c.document_id)
    IN  IF c.tag_was_present /\ found # None
        THEN [ok |-> TRUE, w |-> add_tag_to_document(w, Val(found), c.tag), c |-> c]
        ELSE Fail(c, w)

\* SearchDocumentsCommand.execute
SearchDocumentsCommand_execute(c, w) ==
    IF c.context_id \in DOMAIN w.ctx
    THEN LET context == w.ctx[c.context_id]
             c1 == IF c.query \in DOMAIN context.active_search_results
                   THEN [c EXCEPT !.previous_results =
                            Some(context.active_search_results[c.query])]
                   ELSE c
             results == search(w, c.query, context.documents, None,
                               c.max_results, None)
         IN  [ ok |-> TRUE,
               w |-> [w EXCEPT !.ctx[c.context_id] =
                         Context_search_documents(@, c.query, results)],
               c |-> c1 ]
    ELSE Fail(c, w)

\* variant: undo() clears the results of the query whatever was there before
SearchDocumentsCommand_undo_Clears(c, w) ==
    IF c.context_id \in DOMAIN w.ctx
    THEN [ ok |-> TRUE,
           w |-> [w EXCEPT !.ctx[c.context_id] =
                     Context_clear_search_results(@, Some(c.query))],
           c |-> c ]
    ELSE Fail(c, w)

\* SearchDocumentsCommand.undo
SearchDocumentsCommand_undo(c, w) ==
    IF c.context_id \in DOMAIN w.ctx
    THEN [ ok |-> TRUE,
           w |-> [w EXCEPT !.ctx[c.context_id] =
                     IF c.previous_results # None
                     THEN Context_search_documents(@, c.query, Val(c.previous_results))
                     ELSE Context_clear_search_results(@, Some(c.query))],
           c |-> c ]
    ELSE Fail(c, w)

\* Command.execute, by the class of the command object
Command_execute(c, w) ==
    CASE c.kind = "AddDocument"      -> AddDocumentCommand_execute(c, w)
      [] c.kind = "CreateDocument"   -> CreateDocumentCommand_execute(c, w)
      [] c.kind = "UpdateDocument"   -> UpdateDocumentCommand_execute(c, w)
      [] c.kind = "AddAnnotation"    -> AddAnnotationCommand_execute(c, w)
      [] c.kind = "RemoveAnnotation" -> RemoveAnnotationCommand_execute(c, w)
      [] c.kind = "AddCitation"      -> AddCitationCommand_execute(c, w)
      [] c.kind = "AddTag"           -> AddTagCommand_execute(c, w)
      [] c.kind = "RemoveTag"        -> RemoveTagCommand_execute(c, w)
      [] c.kind = "SearchDocuments"  -> SearchDocumentsCommand_execute(c, w)

\* Command.undo, by the class of the command object
Command_undo(c, w) ==
    CASE c.kind = "AddDocument"      -> AddDocumentCommand_undo(c, w)
      [] c.kind = "CreateDocument"   -> CreateDocumentCommand_undo(c, w)
      [] c.kind = "UpdateDocument"   -> UpdateDocumentCommand_undo(c, w)
      [] c.kind = "AddAnnotation"    -> AddAnnotationCommand_undo(c, w)
      [] c.kind = "RemoveAnnotation" -> RemoveAnnotationCommand_undo(c, w)
      [] c.kind = "AddCitation"      -> AddCitationCommand_undo(c, w)
      [] c.kind = "AddTag"           -> AddTagCommand_undo(c, w)
      [] c.kind = "RemoveTag"        -> RemoveTagCommand_undo(c, w)
      [] c.kind = "SearchDocuments"  -> SearchDocumentsCommand_undo(c, w)

-----------------------------------------------------------------------------
(* commands.py: CommandHistory *)

\* the index (1-based) of the command undo() calls: self.history[self.position]
UndoTarget(h, p) == p + 1

\* variant: redo() runs the newest command of the history
RedoTarget_Last(h, p) == Len(h)

\* the index (1-based) of the command redo() calls, after self.position += 1
RedoTarget(h, p) == p + 2

\* variants of execute_command's bookkeeping that the properties must reject:
\* the redo tail is never cut
HistoryAfterExecute_NoTruncate(h, p, c, result) ==
    IF result
    THEN [history |-> Append(h, c), position |-> Len(h) + 1 - 1]
    ELSE [history |-> h, position |-> p]

\* position is set to len(history) instead of len(history) - 1
HistoryAfterExecute_PositionIsLen(h, p, c, result) ==
    IF result
    THEN LET kept == IF p < Len(h) - 1 THEN SubSeq(h, 1, p + 1) ELSE h
         IN  [history |-> Append(kept, c), position |-> Len(kept) + 1]
    ELSE [history |-> h, position |-> p]

\* the cut is history[: position + 2], which keeps one undone command
HistoryAfterExecute_KeepsOneUndone(h, p, c, result) ==
    IF result
    THEN LET kept == IF p < Len(h) - 1 THEN SubSeq(h, 1, p + 2) ELSE h
         IN  [history |-> Append(kept, c), position |-> Len(kept) + 1 - 1]
    ELSE [history |-> h, position |-> p]

\* the result of command.execute() is not looked at
HistoryAfterExecute_IgnoresResult(h, p, c, result) ==
    LET kept == IF p < Len(h) - 1 THEN SubSeq(h, 1, p + 1) ELSE h
    IN  [history |-> Append(kept, c), position |-> Len(kept) + 1 - 1]

\* CommandHistory.execute_command, after command.execute() returned `result`
\* and left the command object as c -> [history, position]
HistoryAfterExecute(h, p, c, result) ==
    IF result
    THEN LET kept == IF p < Len(h) - 1 THEN SubSeq(h, 1, p + 1) ELSE h
         IN  [history |-> Append(kept, c), position |-> Len(kept) + 1 - 1]
    ELSE [history |-> h, position |-> p]

\* variant: undo() moves the cursor whatever the command's undo() returned
PositionAfterUndo_Always(p, result) == p - 1

\* the position undo() leaves, the command's undo() having returned `result`
PositionAfterUndo(p, result) == IF result THEN p - 1 ELSE p

\* the rest of execute_command, r being what command.execute() gave
ExecuteCommandOutcome(h, p, after, r) ==
    [ result |-> r.ok, w |-> r.w, history |-> after.history,
      position |-> after.position, invoked |-> Some(r.c.cid) ]

\* CommandHistory.execute_command -> [result, w, history, position, invoked]
CommandHistory_execute_command(h, p, c, r) ==
    ExecuteCommandOutcome(h, p, HistoryAfterExecute(h, p, r.c, r.ok), r)

\* the rest of undo(), r being what self.history[self.position].undo() gave
UndoOutcome(h, p, i, r) ==
    [ result |-> r.ok, w |-> r.w, history |-> [h EXCEPT ![i] = r.c],
      position |-> PositionAfterUndo(p, r.ok), invoked |-> Some(h[i].cid) ]

\* the result of a call that finds nothing to undo or redo
Refused(h, p, w) ==
    [ result |-> FALSE, w |-> w, history |-> h, position |-> p,
      invoked |-> None ]

\* variant: undo() without its guard; self.history[-1] is Python's last
\* element, and the cursor stays at -1
CommandHistory_undo_NoGuard(h, p, w) ==
    IF p >= 0
    THEN UndoOutcome(h, p, UndoTarget(h, p), Command_undo(h[UndoTarget(h, p)], w))
    ELSE IF Len(h) > 0
         THEN [UndoOutcome(h, p, Len(h), Command_undo(h[Len(h)], w))
                  EXCEPT !.position = p]
         ELSE Refused(h, p, w)

\* CommandHistory.undo -> [result, w, history, position, invoked]
CommandHistory_undo(h, p, w) ==
    IF p >= 0
    THEN UndoOutcome(h, p, UndoTarget(h, p), Command_undo(h[UndoTarget(h, p)], w))
    ELSE Refused(h, p, w)

\* the rest of redo(), r being what self.history[self.position].execute() gave
RedoOutcome(h, p, i, r) ==
    [ result |-> r.ok, w |-> r.w, history |-> [h EXCEPT ![i] = r.c],
      position |-> p + 1, invoked |-> Some(h[i].cid) ]

\* variant: redo() at the end of the history executes the current command
\* once more and leaves the cursor on it
CommandHistory_redo_RepeatsLast(h, p, w) ==
    IF p < Len(h) - 1
    THEN RedoOutcome(h, p, RedoTarget(h, p), Command_execute(h[RedoTarget(h, p)], w))
    ELSE IF Len(h) > 0
         THEN RedoOutcome(h, p - 1, Len(h), Command_execute(h[Len(h)], w))
         ELSE Refused(h, p, w)

\* CommandHistory.redo -> [result, w, history, position, invoked]
CommandHistory_redo(h, p, w) ==
    IF p < Len(h) - 1
    THEN RedoOutcome(h, p, RedoTarget(h, p), Command_execute(h[RedoTarget(h, p)], w))
    ELSE Refused(h, p, w)

-----------------------------------------------------------------------------
(* Observers *)

\* the program variables as one world record
World ==
    [ ctx |-> active_contexts, docs |-> docs, annos |-> annos,
      files |-> files, uuid |-> uuid_count, sets |-> tagsets,
      raised |-> FALSE ]

\* a document by value: its fields, its annotations with their citations
DocValue(w, ref) ==
    LET d == w.docs[ref]
    IN  [ d EXCEPT !.tags = GetTags(w, d), !.tags_of = 0, !.annotations =
            [i \in 1..Len(d.annotations) |->
                [ id |-> d.annotations[i],
                  citations |-> w.annos[d.annotations[i]].citations ]] ]

\* the entity graph of every open workspace: its documents by id and value,
\* and its stored search results
Graph(w) ==
    [ x \in DOMAIN w.ctx |->
        [ documents |-> { DocValue(w, w.ctx[x].documents[i].ref) :
                            i \in 1..Len(w.ctx[x].documents) },
          active_search_results |-> w.ctx[x].active_search_results ] ]

\* the identities of the commands in a history, in order
Cids(h) == [i \in 1..Len(h) |-> h[i].cid]

CidSet(h) == {h[i].cid : i \in 1..Len(h)}

\* the command of a history that has the identity cid
CmdById(h, cid) == h[CHOOSE i \in 1..Len(h) : h[i].cid = cid]

\* the id of the document a command is bound to (0, which no document has,
\* for a command bound to none)
BoundDocument(c, w) ==
    CASE c.kind = "AddDocument"     -> c.built.id
      [] c.kind = "CreateDocument"  -> IF c.document # None
                                       THEN w.docs[Val(c.document)].id ELSE 0
      [] c.kind = "SearchDocuments" -> 0
      [] OTHER                      -> c.document_id

\* the number of commands submitted so far that were recorded or that raised
Accepted == Len(history) + Cardinality(discarded) + Cardinality(failed)

NoStreak == [bases |-> << >>, undos |-> 0, allTrue |-> TRUE]

\* the last call was not a successful execute() of a command
NoExec == [cid |-> 0, graph |-> << >>, files |-> {}]

\* no browser session holds a workspace
NoSessions == [s \in {} |-> ""]

\* no call of a CommandHistory method is in progress
NoCalls == [t \in {} |-> 0]

\* a run of accepted commands grows by one; bases holds the graph before each
StreakAfterExecute(result, graphBefore) ==
    IF result
    THEN IF streak.undos = 0
         THEN [streak EXCEPT !.bases = Append(@, graphBefore)]
         ELSE [bases |-> << graphBefore >>, undos |-> 0, allTrue |-> TRUE]
    ELSE NoStreak

\* the undos that directly follow the run, at most as many as its commands
StreakAfterUndo(result) ==
    IF streak.undos < Len(streak.bases)
    THEN [streak EXCEPT !.undos = @ + 1, !.allTrue = @ /\ result]
    ELSE NoStreak

NoRun == [bases |-> << >>, redos |-> 0, allTrue |-> TRUE]

\* a run of successful undos grows by one; bases holds the graph before each
RunAfterUndo(result, graphBefore) ==
    IF result
    THEN IF redoRun.redos = 0
         THEN [redoRun EXCEPT !.bases = Append(@, graphBefore)]
         ELSE [bases |-> << graphBefore >>, redos |-> 0, allTrue |-> TRUE]
    ELSE NoRun

\* the redos that directly follow the run, at most as many as its undos
RunAfterRedo(result) ==
    IF redoRun.redos < Len(redoRun.bases)
    THEN [redoRun EXCEPT !.redos = @ + 1, !.allTrue = @ /\ result]
    ELSE NoRun

-----------------------------------------------------------------------------
(* Inputs of the commands the callers construct *)

UploadName == "my doc.txt"

\* a second upload, under another name
OtherUploadName == "../a.txt"

\* (file, file_name, file_type) of a request without an upload, with one,
\* with one whose write to the upload directory fails, and with a name and a
\* type but no file
FileInputs ==
    { [file |-> None, file_name |-> None, file_type |-> None],
      [file |-> Some([size |-> 2, consumed |-> FALSE, broken |-> FALSE]),
       file_name |-> Some(UploadName), file_type |-> Some("text/plain")],
      [file |-> Some([size |-> 2, consumed |-> FALSE, broken |-> TRUE]),
       file_name |-> Some(UploadName), file_type |-> Some("text/plain")],
      [file |-> None,
       file_name |-> Some(UploadName), file_type |-> Some("text/plain")] }

\* the tags argument of a command: not supplied, or a set holding one tag
TagInputs == { None, Some(Tags) }

\* the arguments of an update; whichever is None is not supplied
UpdateInputs ==
    { [title |-> Some(Title1), content |-> None, tags |-> None,
       file |-> None, file_name |-> None, file_type |-> None],
      [title |-> None, content |-> Some(Content1), tags |-> None,
       file |-> None, file_name |-> None, file_type |-> None],
      [title |-> None, content |-> None, tags |-> Some(Tags),
       file |-> None, file_name |-> None, file_type |-> None],
      [title |-> Some(Title1), content |-> Some(Content1), tags |-> Some({}),
       file |-> Some([size |-> 3, consumed |-> FALSE, broken |-> FALSE]),
       file_name |-> Some(UploadName), file_type |-> Some("text/plain")],
      [title |-> Some(Title1), content |-> None, tags |-> None,
       file |-> Some([size |-> 2, consumed |-> FALSE, broken |-> TRUE]),
       file_name |-> Some(UploadName), file_type |-> Some("text/plain")],
      [title |-> None, content |-> None, tags |-> None,
       file |-> Some([size |-> 3, consumed |-> FALSE, broken |-> FALSE]),
       file_name |-> Some(OtherUploadName), file_type |-> Some("text/plain")] }

CitationInputs ==
    { [text |-> << "a" >>, source |-> << "b" >>, page |-> None,
       section |-> None, url |-> None] }

\* the ids a caller can have learnt: every uuid handed out so far names a
\* document or an annotation, present or since removed
IssuedIds == 1..uuid_count

\* the document ids commands are bound to (an id that names no document of
\* the workspace is among them as soon as one annotation or a second
\* workspace's id exists)
DocIds == GivenIds \cup IssuedIds

\* the Document objects a caller hands to AddDocumentCommand: one it built
\* itself, or one it got from an open workspace (context.get_document)
DocumentArgs ==
    { [document |-> None, built |-> NewDocument(id, Title0, Content0)] :
        id \in GivenIds }
    \cup
    { [document |-> Some(e.ref), built |-> docs[e.ref]] :
        e \in UNION { { active_contexts[x].documents[i] :
                          i \in 1..Len(active_contexts[x].documents) } :
                      x \in DOMAIN active_contexts } }

-----------------------------------------------------------------------------
(* The state machine *)

\* the worlds a CommandHistory is constructed in: the open workspace is
\* empty, or holds one document that create_document made, with a tag and
\* two annotations that create_annotation made, and the results of one
\* search that store_search_results stored
EmptyWorld ==
    [ ctx |-> [x \in OpenAtStart |-> NewContext], docs |-> << >>,
      annos |-> [a \in {} |-> << >>], files |-> {}, uuid |-> 0,
      sets |-> [k \in {} |-> {}], raised |-> FALSE ]

WorldWithDocument ==
    LET made == create_document(EmptyWorld, Title0, Content0, None, None, None, None)
        a1 == create_annotation(made.w, 1)
        a2 == create_annotation(a1.w, 1)
        w1 == add_annotation_to_document(a2.w, made.ref, a1.id)
        w2 == add_annotation_to_document(w1, made.ref, a2.id)
        w3 == add_tag_to_document(w2, made.ref, "law")
        held == Context_add_document(NewContext, 1, made.ref)
        found == search(w3, StoredQuery, held.documents, None,
                        DefaultMaxResults, None)
    IN  [w3 EXCEPT !.ctx = [x \in OpenAtStart |->
                              Context_search_documents(held, StoredQuery, found)]]

StartWorlds == { EmptyWorld, WorldWithDocument }

Init ==
    /\ now = 0
    /\ \E w \in StartWorlds :
          /\ active_contexts = w.ctx
          /\ docs = w.docs
          /\ annos = w.annos
          /\ files = w.files
          /\ uuid_count = w.uuid
          /\ tagsets = w.sets
    /\ history = << >>
    /\ position = -1
    /\ lastCall = [op |-> "init", result |-> TRUE, invoked |-> None,
                   raised |-> FALSE]
    /\ discarded = {}
    /\ failed = {}
    /\ streak = NoStreak
    /\ redoRun = NoRun
    /\ lastExec = NoExec
    /\ session = NoSessions
    /\ inflight = NoCalls
    /\ reverted = {}

\* the next state, r being what the CommandHistory method `op` gave
Becomes(op, r) ==
    /\ active_contexts' = r.w.ctx
    /\ docs' = r.w.docs
    /\ annos' = r.w.annos
    /\ files' = r.w.files
    /\ uuid_count' = r.w.uuid
    /\ tagsets' = r.w.sets
    /\ history' = r.history
    /\ position' = r.position
    /\ lastCall' = [op |-> op, result |-> r.result, invoked |-> r.invoked,
                    raised |-> r.w.raised]
    /\ discarded' = discarded \cup (CidSet(history) \ CidSet(r.history))
    /\ failed' = IF r.w.raised THEN failed \cup {Val(r.invoked)} ELSE failed
    /\ now' = now
    /\ streak' = CASE op = "execute_command" -> StreakAfterExecute(r.result, Graph(World))
                   [] op = "undo" -> StreakAfterUndo(r.result)
                   [] OTHER -> NoStreak
    /\ lastExec' = IF op \in {"execute_command", "redo"} /\ r.result
                   THEN [cid |-> Val(r.invoked), graph |-> Graph(World),
                         files |-> files]
                   ELSE NoExec
    /\ redoRun' = CASE op = "undo" -> RunAfterUndo(r.result, Graph(World))
                    [] op = "redo" -> RunAfterRedo(r.result)
                    [] OTHER -> NoRun
    /\ UNCHANGED << session, inflight, reverted >>

\* command_history.execute_command(c) for a command object c the caller built
execute_command(c) ==
    /\ Command_execute(c, World).w.uuid <= MaxUuid
    /\ Becomes("execute_command",
               CommandHistory_execute_command(history, position, c,
                                              Command_execute(c, World)))

SubmitAddDocument ==
    /\ Accepted < MaxCmds
    /\ \E x \in Contexts, d \in DocumentArgs :
        execute_command(
            [ cid |-> Accepted + 1, kind |-> "AddDocument", context_id |-> x,
              document |-> d.document, built |-> d.built ])

SubmitCreateDocument ==
    /\ Accepted < MaxCmds
    /\ \E x \in Contexts, f \in FileInputs, t \in TagInputs :
        execute_command(
            [ cid |-> Accepted + 1, kind |-> "CreateDocument", context_id |-> x,
              title |-> Title0, content |-> Content0, file |-> f.file,
              file_name |-> f.file_name, file_type |-> f.file_type,
              tags |-> t, document |-> None ])

SubmitUpdateDocument ==
    /\ Accepted < MaxCmds
    /\ \E x \in Contexts, id \in DocIds, u \in UpdateInputs :
        execute_command(
            [ cid |-> Accepted + 1, kind |-> "UpdateDocument", context_id |-> x,
              document_id |-> id, title |-> u.title, content |-> u.content,
              file |-> u.file, file_name |-> u.file_name,
              file_type |-> u.file_type, tags |-> u.tags,
              old_title |-> None, old_content |-> None, old_file_path |-> None,
              old_file_name |-> None, old_file_type |-> None,
              old_file_size |-> None, old_tags |-> None ])

SubmitAddAnnotation ==
    /\ Accepted < MaxCmds
    /\ \E x \in Contexts, id \in DocIds :
        execute_command(
            [ cid |-> Accepted + 1, kind |-> "AddAnnotation", context_id |-> x,
              document_id |-> id, annotation |-> None ])

SubmitRemoveAnnotation ==
    /\ Accepted < MaxCmds
    /\ \E x \in Contexts, id \in DocIds, a \in IssuedIds :
        execute_command(
            [ cid |-> Accepted + 1, kind |-> "RemoveAnnotation", context_id |-> x,
              document_id |-> id, annotation_id |-> a,
              removed_annotation |-> None ])

SubmitAddCitation ==
    /\ Accepted < MaxCmds
    /\ \E x \in Contexts, id \in DocIds, k \in CitationInputs,
       a \in {None} \cup {Some(n) : n \in IssuedIds} :
        execute_command(
            [ cid |-> Accepted + 1, kind |-> "AddCitation", context_id |-> x,
              document_id |-> id, text |-> k.text, source |-> k.source,
              page |-> k.page, section |-> k.section, url |-> k.url,
              annotation_id |-> a, citation |-> None ])

SubmitAddTag ==
    /\ Accepted < MaxCmds
    /\ \E x \in Contexts, id \in DocIds, t \in Tags :
        execute_command(
            [ cid |-> Accepted + 1, kind |-> "AddTag", context_id |-> x,
              document_id |-> id, tag |-> t ])

SubmitRemoveTag ==
    /\ Accepted < MaxCmds
    /\ \E x \in Contexts, id \in DocIds, t \in Tags :
        execute_command(
            [ cid |-> Accepted + 1, kind |-> "RemoveTag", context_id |-> x,
              document_id |-> id, tag |-> t, tag_was_present |-> FALSE ])

SubmitSearchDocuments ==
    /\ Accepted < MaxCmds
    /\ \E x \in Contexts, q \in Queries :
        execute_command(
            [ cid |-> Accepted + 1, kind |-> "SearchDocuments", context_id |-> x,
              query |-> q, max_results |-> DefaultMaxResults,
              previous_results |-> None ])

\* command_history.undo()
undo ==
    /\ position \in Int
    /\ Becomes("undo", CommandHistory_undo(history, position, World))

\* command_history.redo()
redo ==
    /\ CommandHistory_redo(history, position, World).w.uuid <= MaxUuid
    /\ Becomes("redo", CommandHistory_redo(history, position, World))

\* DialogueService.close_context(x) for an open workspace x (for any other
\* id it returns False and changes nothing)
close_context ==
    \E x \in DOMAIN active_contexts :
        /\ active_contexts' =
              [y \in (DOMAIN active_contexts) \ {x} |-> active_contexts[y]]
        /\ lastCall' = [op |-> "close_context", result |-> TRUE, invoked |-> None,
                        raised |-> FALSE]
        /\ streak' = NoStreak
        /\ redoRun' = NoRun
        /\ lastExec' = NoExec
        /\ UNCHANGED << docs, annos, files, uuid_count, tagsets, history, position,
                        discarded, failed, now, session, inflight, reverted >>

Next ==
    \/ SubmitAddDocument
    \/ SubmitCreateDocument
    \/ SubmitUpdateDocument
    \/ SubmitAddAnnotation
    \/ SubmitRemoveAnnotation
    \/ SubmitAddCitation
    \/ SubmitAddTag
    \/ SubmitRemoveTag
    \/ SubmitSearchDocuments
    \/ undo
    \/ redo
    \/ close_context

Spec == Init /\ [][Next]_vars

-----------------------------------------------------------------------------
(* CommandHistory: the undo/redo timeline *)

\* C1: a successful execute_command(cmd) leaves history equal to the old
\* history[: position + 1] followed by cmd, and position at its last index.
C1_ExecuteAppends ==
    [][ (lastCall'.op = "execute_command" /\ lastCall'.result) =>
            /\ Len(history') = position + 2
            /\ SubSeq(history', 1, position + 1) = SubSeq(history, 1, position + 1)
            /\ history'[position + 2].cid = Accepted + 1
            /\ lastCall'.invoked = Some(Accepted + 1)
            /\ position' = Len(history') - 1 ]_vars

\* a command was accepted after an undo: the command accepted just before
\* it is gone and the cursor is on the new one
C1_Witness ==
    /\ lastCall.op = "execute_command" /\ lastCall.result
    /\ Len(history) >= 1
    /\ position = Len(history) - 1
    /\ (Val(lastCall.invoked) - 1) \in discarded

\* C2: -1 <= position <= len(history) - 1 in every state, whichever calls
\* were made and whether they succeeded or failed.
C2_PositionInRange == -1 <= position /\ position <= Len(history) - 1

\* both ends of the range have been visited with a non-empty history, the
\* lower one by an undo
C2_Witness ==
    /\ Len(history) >= 2
    /\ position = -1
    /\ lastCall.op = "undo" /\ lastCall.result

\* C3: a successful execute_command(new) discards every undone command: none
\* of them is in the history any more, a redo() right after it returns false
\* and calls nothing, and no later undo() or redo() calls a discarded command.
C3_NewCommandDiscardsUndone ==
    [][ /\ (lastCall'.op = "execute_command" /\ lastCall'.result) =>
              \A i \in (position + 2)..Len(history) :
                  /\ history[i].cid \notin CidSet(history')
                  /\ history[i].cid \in discarded'
        /\ (lastCall.op = "execute_command" /\ lastCall.result
               /\ lastCall'.op = "redo") =>
              (~lastCall'.result /\ lastCall'.invoked = None)
        /\ (lastCall'.op \in {"undo", "redo"} /\ lastCall'.invoked # None) =>
              Val(lastCall'.invoked) \notin discarded' ]_vars

\* a redo() was refused on a history whose newest command replaced the one
\* accepted before it
C3_Witness ==
    /\ lastCall.op = "redo" /\ ~lastCall.result /\ lastCall.invoked = None
    /\ Len(history) >= 1
    /\ position = Len(history) - 1
    /\ (history[Len(history)].cid - 1) \in discarded

\* C4: undo() at position = -1 returns false and leaves the history, the
\* position and the entity graph as they were.
C4_UndoAtStart ==
    [][ (lastCall'.op = "undo" /\ position = -1) =>
            /\ ~lastCall'.result
            /\ lastCall'.invoked = None
            /\ history' = history
            /\ position' = position
            /\ Graph(World)' = Graph(World)
            /\ UNCHANGED << active_contexts, docs, annos, files >> ]_vars

\* undo() was refused on a history whose commands are all undone
C4_Witness ==
    /\ lastCall.op = "undo" /\ ~lastCall.result /\ lastCall.invoked = None
    /\ position = -1
    /\ Len(history) >= 1

\* C5: redo() at position = len(history) - 1 returns false and leaves the
\* history, the position and the entity graph as they were.
C5_RedoAtEnd ==
    [][ (lastCall'.op = "redo" /\ position = Len(history) - 1) =>
            /\ ~lastCall'.result
            /\ lastCall'.invoked = None
            /\ history' = history
            /\ position' = position
            /\ Graph(World)' = Graph(World)
            /\ UNCHANGED << active_contexts, docs, annos, files >> ]_vars

\* redo() was refused with every command of a non-empty history applied
C5_Witness ==
    /\ lastCall.op = "redo" /\ ~lastCall.result /\ lastCall.invoked = None
    /\ position = Len(history) - 1
    /\ position >= 0
    /\ discarded = {}

\* C6: when cmd.execute() returns false, execute_command returns false, cmd
\* is not appended, the redo tail is not cut, position is unchanged, and no
\* document, annotation, citation, tag or stored search result has changed.
C6_RefusedCommand ==
    [][ ( /\ lastCall'.op = "execute_command"
          /\ ~lastCall'.result /\ ~lastCall'.raised ) =>
            /\ history' = history
            /\ position' = position
            /\ Graph(World)' = Graph(World)
            /\ UNCHANGED << active_contexts, docs, annos, files >> ]_vars

\* a command was refused while there were commands to redo
C6_Witness ==
    /\ lastCall.op = "execute_command" /\ ~lastCall.result /\ ~lastCall.raised
    /\ position < Len(history) - 1

\* C7: undo() with position >= 0 calls undo() on history[position] and on no
\* other command, moves position down by one when that returned true, leaves
\* it when it returned false, and never changes the sequence of commands.
C7_UndoStep ==
    [][ (lastCall'.op = "undo" /\ position >= 0) =>
            /\ lastCall'.invoked = Some(history[position + 1].cid)
            /\ World' = Command_undo(history[position + 1], World).w
            /\ lastCall'.result = Command_undo(history[position + 1], World).ok
            /\ position' = IF lastCall'.result THEN position - 1 ELSE position
            /\ Cids(history') = Cids(history) ]_vars

\* an undo() was called on a command and returned false, the cursor still
\* on that command
C7_Witness ==
    /\ lastCall.op = "undo" /\ ~lastCall.result
    /\ position >= 0
    /\ lastCall.invoked = Some(history[position + 1].cid)

\* C8: redo() with position < len(history) - 1 executes history[position + 1]
\* and no other command; when that succeeds redo() returns true, position
\* has grown by one and the sequence of commands is unchanged.
C8_RedoStep ==
    [][ (lastCall'.op = "redo" /\ position < Len(history) - 1) =>
            /\ lastCall'.invoked = Some(history[position + 2].cid)
            /\ World' = Command_execute(history[position + 2], World).w
            /\ Command_execute(history[position + 2], World).ok =>
                  /\ lastCall'.result
                  /\ position' = position + 1
                  /\ Cids(history') = Cids(history) ]_vars

\* a redo() succeeded with a further undone command left behind it
C8_Witness ==
    /\ lastCall.op = "redo" /\ lastCall.result
    /\ position >= 0
    /\ position < Len(history) - 1
    /\ lastCall.invoked = Some(history[position + 1].cid)

\* C9: a redo() that returns false leaves the position, the sequence of
\* commands and the entity graph as they were before the call.
C9_FailedRedoChangesNothing ==
    [][ (lastCall'.op = "redo" /\ ~lastCall'.result) =>
            /\ position' = position
            /\ Cids(history') = Cids(history)
            /\ Graph(World)' = Graph(World) ]_vars

\* C10: after N accepted commands and then N undo() calls, every undo() has
\* returned true and the entity graph of every workspace is the one before
\* the first of the N commands (stated for each N up to the run's length).
C10_UndoAllRestores ==
    streak.undos > 0 =>
        /\ streak.allTrue
        /\ Graph(World) = streak.bases[Len(streak.bases) - streak.undos + 1]

\* C11: after k successful undo() calls and then k redo() calls, every redo()
\* has returned true and the entity graph of every workspace is the one before
\* the first of the k undos (stated for each k up to the run's length).
C11_RedoAllRestores ==
    redoRun.redos > 0 =>
        /\ redoRun.allTrue
        /\ Graph(World) = redoRun.bases[Len(redoRun.bases) - redoRun.redos + 1]


-----------------------------------------------------------------------------
(* The commands *)

\* C12: when an UpdateDocumentCommand on an existing document is executed and
\* then undone, the document's title, content and tag set are what they were
\* before execute(), whichever of title, content and tags the update gave.
C12_UpdateUndoRestores ==
    ( /\ lastCall.op = "undo" /\ lastCall.result
      /\ streak.undos = 1
      /\ history[position + 2].kind = "UpdateDocument" ) =>
        LET c == history[position + 2]
            before == streak.bases[Len(streak.bases)][c.context_id].documents
            after == Graph(World)[c.context_id].documents
        IN  \A d0 \in before :
                d0.id = c.document_id =>
                    \E d \in after : /\ d.id = d0.id
                                   /\ d.title = d0.title
                                   /\ d.content = d0.content
                                   /\ d.tags = d0.tags

\* an update that gave only tags was executed and undone on a document
\* that carried a tag
C12_Witness ==
    /\ lastCall.op = "undo" /\ lastCall.result
    /\ streak.undos = 1
    /\ history[position + 2].kind = "UpdateDocument"
    /\ history[position + 2].tags # None
    /\ history[position + 2].title = None
    /\ \E d \in Graph(World)[history[position + 2].context_id].documents :
           d.id = history[position + 2].document_id /\ d.tags # {}


\* C13: executing, undoing or redoing a command bound to document B changes
\* no field of any other document A of a workspace and neither adds nor
\* removes A (a refused command changes no document at all); the calls are
\* those that return.
C13_OtherDocumentsUntouched ==
    [][ (lastCall'.invoked # None /\ ~lastCall'.raised) =>
            LET cid == Val(lastCall'.invoked)
                b == IF cid \in CidSet(history')
                     THEN BoundDocument(CmdById(history', cid), World')
                     ELSE 0
            IN  /\ DOMAIN active_contexts' = DOMAIN active_contexts
                /\ \A x \in DOMAIN active_contexts :
                      /\ \A d \in Graph(World)[x].documents :
                            d.id # b => d \in Graph(World)'[x].documents
                      /\ \A d \in Graph(World)'[x].documents :
                            d.id # b => d \in Graph(World)[x].documents ]_vars

\* a command bound to one document of a workspace holding two was redone
C13_Witness ==
    /\ lastCall.op = "redo" /\ lastCall.result
    /\ redoRun.redos = 1
    /\ history[position + 1].kind = "AddDocument"
    /\ Cardinality(Graph(World)[history[position + 1].context_id].documents) = 2


\* C14: an undo() that returns false leaves the entity graph and the
\* attached files as they were; CreateDocumentCommand.undo() deletes the
\* document's file only when it removes the document and returns true.
C14_FailedUndoChangesNothing ==
    [][ (lastCall'.op = "undo" /\ ~lastCall'.result) =>
            /\ Graph(World)' = Graph(World)
            /\ files' = files ]_vars


\* C15: when the file write fails during execute() of a CreateDocumentCommand
\* or an UpdateDocumentCommand, the command fails and is not recorded, and
\* the entity graph and the attached files are as they were.
C15_FailedWriteChangesNothing ==
    [][ (lastCall'.op = "execute_command" /\ lastCall'.raised) =>
            /\ ~lastCall'.result
            /\ history' = history
            /\ position' = position
            /\ Graph(World)' = Graph(World)
            /\ files' = files ]_vars


\* C16: every document of a workspace has its four file fields file_path,
\* file_name, file_type and file_size all present or all absent.
C16_FileFieldsTogether ==
    \A x \in DOMAIN active_contexts :
        \A d \in Graph(World)[x].documents :
            LET present == { d.file_path # None, d.file_name # None,
                             d.file_type # None, d.file_size # None }
            IN  Cardinality(present) = 1


\* every citation held by a document or by an annotation
AllCitations ==
    UNION { { docs[i].citations[j] : j \in DOMAIN docs[i].citations } :
            i \in DOMAIN docs }
    \cup UNION { { annos[a].citations[j] : j \in DOMAIN annos[a].citations } :
                 a \in DOMAIN annos }

\* C17: create_citation gives equal ids to equal (text, source, page, section,
\* url), and create_annotation gives every annotation an id of its own: the
\* annotations of a document, though created with identical fields, have
\* pairwise distinct ids.
C17_CitationIdsDeterministicAnnotationIdsFresh ==
    /\ \A c1 \in AllCitations, c2 \in AllCitations :
           ( /\ c1.text = c2.text /\ c1.source = c2.source /\ c1.page = c2.page
             /\ c1.section = c2.section /\ c1.url = c2.url ) => c1.id = c2.id
    /\ \A i \in DOMAIN docs :
           \A j \in DOMAIN docs[i].annotations, k \in DOMAIN docs[i].annotations :
               docs[i].annotations[j] = docs[i].annotations[k] => j = k

\* a document carries two citations made by two create_citation calls on
\* equal tuples and two annotations made with identical fields
C17_Witness ==
    \E i \in DOMAIN docs :
        /\ Len(docs[i].citations) = 2
        /\ Len(docs[i].annotations) = 2
        /\ annos[docs[i].annotations[1]] = annos[docs[i].annotations[2]]


-----------------------------------------------------------------------------
(* Document.add_tag / Document.remove_tag called directly on one Document, *)
(* the clock ticking after every call                                      *)

\* the tags a document starts with and the tags the calls name
TagPool == {"law", "tax"}

InitTags ==
    /\ now = 1
    /\ \E T \in SUBSET TagPool :
          docs = << [ id |-> 1, title |-> Title0, content |-> Content0,
                      file_path |-> None, file_name |-> None,
                      file_type |-> None, file_size |-> None,
                      annotations |-> << >>, citations |-> << >>,
                      tags |-> T, tags_of |-> 0, created_at |-> 0,
                      updated_at |-> 0 ] >>
    /\ active_contexts = EmptyWorld.ctx
    /\ annos = EmptyWorld.annos
    /\ files = {}
    /\ uuid_count = 1
    /\ tagsets = EmptyWorld.sets
    /\ history = << >>
    /\ position = -1
    /\ lastCall = [op |-> "init", result |-> TRUE, tag |-> ""]
    /\ discarded = {}
    /\ failed = {}
    /\ streak = NoStreak
    /\ redoRun = NoRun
    /\ lastExec = NoExec
    /\ session = NoSessions
    /\ inflight = NoCalls
    /\ reverted = {}

\* document.remove_tag(tag)
CallRemoveTag ==
    /\ now < MaxClock
    /\ \E tag \in TagPool :
          LET r == Document_remove_tag(docs[1], tag)
          IN  /\ docs' = << r.doc >>
              /\ lastCall' = [op |-> "remove_tag", result |-> r.ok, tag |-> tag]
    /\ now' = now + 1
    /\ UNCHANGED << active_contexts, annos, files, uuid_count, tagsets, history,
                    position, discarded, failed, streak, redoRun,
                    lastExec,
                    session, inflight, reverted >>

\* document.add_tag(tag)
CallAddTag ==
    /\ now < MaxClock
    /\ \E tag \in TagPool :
          /\ docs' = << Document_add_tag(docs[1], tag) >>
          /\ lastCall' = [op |-> "add_tag", result |-> TRUE, tag |-> tag]
    /\ now' = now + 1
    /\ UNCHANGED << active_contexts, annos, files, uuid_count, tagsets, history,
                    position, discarded, failed, streak, redoRun,
                    lastExec,
                    session, inflight, reverted >>

NextTags ==
    \/ CallRemoveTag
    \/ CallAddTag

SpecTags == InitTags /\ [][NextTags]_vars

\* C18: Document.remove_tag(tag) returns false and leaves the tag set and
\* updated_at as they were when the tag is absent; when it is present it
\* returns true, removes that tag and no other, and sets updated_at to the
\* time of the call.
C18_RemoveTag ==
    [][ lastCall'.op = "remove_tag" =>
            LET d == docs[1]
                after == docs'[1]
                tag == lastCall'.tag
            IN  IF tag \in d.tags
                THEN /\ lastCall'.result
                     /\ after.tags = d.tags \ {tag}
                     /\ after.updated_at = now
                     /\ after.updated_at > d.updated_at
                ELSE /\ ~lastCall'.result
                     /\ after.tags = d.tags
                     /\ after.updated_at = d.updated_at ]_vars

\* remove_tag took one of the two tags of a document
C18_Witness ==
    /\ lastCall.op = "remove_tag" /\ lastCall.result
    /\ docs[1].tags # {}
    /\ docs[1].updated_at = now - 1


-----------------------------------------------------------------------------
(* SearchService.search called directly on the documents of a workspace   *)

\* a content of k characters, then "ba", then m characters
Padded(k, m) ==
    [i \in 1..(k + 2 + m) |->
        IF i = k + 1 THEN "b" ELSE IF i = k + 2 THEN "a" ELSE "x"]

OnceUponATime ==
    << "O", "n", "c", "e", " ", "u", "p", "o", "n", " ", "a", " ",
       "t", "i", "m", "e" >>

\* contents around the 50-character context window: the match with exactly
\* 50 and with 51 characters on each side, and far from one end only
LongContents ==
    { Padded(ContextPad, ContextPad), Padded(ContextPad + 1, ContextPad + 1),
      Padded(ContextPad + 10, 0), Padded(0, ContextPad + 10), OnceUponATime }

\* the (title, content) pairs of the documents searched
Library ==
    ({ Title0, Title1, << "b", "A" >> } \X { Content0, Content1 })
    \cup ({ Title1 } \X LongContents)

\* the queries: mixed case, one and two characters, the empty string, and
\* the word of the "Once upon a time" scenario
SearchQueries ==
    { << "b", "a" >>, << "b" >>, << "A" >>, << >>, << "t", "i", "m", "e" >> }

InitSearch ==
    /\ now = 0
    /\ \E n \in 0..MaxDocs :
          \E pick \in [1..n -> Library] :
              /\ docs = [i \in 1..n |-> NewDocument(i, pick[i][1], pick[i][2])]
              /\ active_contexts =
                    [x \in OpenAtStart |->
                       [NewContext EXCEPT
                          !.documents = [i \in 1..n |-> [id |-> i, ref |-> i]]]]
              /\ uuid_count = n
    /\ annos = EmptyWorld.annos
    /\ files = {}
    /\ tagsets = EmptyWorld.sets
    /\ history = << >>
    /\ position = -1
    /\ lastCall = [op |-> "init", query |-> << >>, max_results |-> 0,
                   hits |-> << >>, results |-> << >>]
    /\ discarded = {}
    /\ failed = {}
    /\ streak = NoStreak
    /\ redoRun = NoRun
    /\ lastExec = NoExec
    /\ session = NoSessions
    /\ inflight = NoCalls
    /\ reverted = {}

\* search_service.search(query, context.documents, max_results=m), once on
\* each workspace; hits is the result list of _local_search before the sort
\* and the cut
CallSearch ==
    /\ lastCall.op = "init"
    /\ \E x \in OpenAtStart, q \in SearchQueries, m \in 0..MaxLimit :
          lastCall' = [ op |-> "search", query |-> q, max_results |-> m,
                        hits |-> CollectHits(World, active_contexts[x].documents, q, 1),
                        results |-> search(World, q, active_contexts[x].documents,
                                           None, m, None) ]
    /\ UNCHANGED << active_contexts, docs, annos, files, uuid_count, tagsets,
                    history, position, discarded, failed, now, streak, redoRun,
                    lastExec,
                    session, inflight, reverted >>

\* search_service.search(query, context.documents, provider=p,
\* max_results=m), once on each workspace; local and semantic are the two
\* lists _hybrid_search combines
CallProviderSearch ==
    /\ lastCall.op = "init"
    /\ \E x \in OpenAtStart, q \in SearchQueries, m \in 0..MaxLimit,
          p \in { "SEMANTIC", "HYBRID" } :
          lastCall' = [ op |-> "provider_search", provider |-> p,
                        query |-> q, max_results |-> m,
                        local |-> local_search(World, q, active_contexts[x].documents, m),
                        semantic |-> semantic_search(World, q, active_contexts[x].documents, m),
                        results |-> search(World, q, active_contexts[x].documents,
                                           Some(p), m, None) ]
    /\ UNCHANGED << active_contexts, docs, annos, files, uuid_count, tagsets,
                    history, position, discarded, failed, now, streak, redoRun,
                    lastExec,
                    session, inflight, reverted >>

NextSearch ==
    \/ CallSearch
    \/ CallProviderSearch

SpecSearch == InitSearch /\ [][NextSearch]_vars

\* the places of a result in a result list
Places(rs, r) == { k \in 1..Len(rs) : rs[k] = r }

\* C19: search returns at most max_results results, each one of the hits
\* and none twice, in order of non-increasing relevance score; results of
\* equal score come in the order in which the documents were met, so every
\* title hit (score 1.0) precedes every content hit (score 0.8).
C19_SearchOrder ==
    lastCall.op = "search" =>
        LET rs == lastCall.results
            hits == lastCall.hits
        IN  /\ Len(rs) <= lastCall.max_results
            /\ \A i \in 1..Len(rs) : Places(hits, rs[i]) # {}
            /\ \A i \in 1..Len(rs), j \in 1..Len(rs) :
                   i < j =>
                     /\ rs[i] # rs[j]
                     /\ rs[i].relevance_score >= rs[j].relevance_score
                     /\ rs[i].relevance_score = rs[j].relevance_score =>
                            \A a \in Places(hits, rs[i]), b \in Places(hits, rs[j]) :
                                a < b
                     /\ rs[j].relevance_score = TitleScore =>
                            rs[i].relevance_score = TitleScore

\* the cut dropped a hit, and the sort moved the second document's title
\* hit in front of the first document's content hit
C19_Witness ==
    /\ lastCall.op = "search"
    /\ Len(lastCall.results) = 3
    /\ Len(lastCall.hits) = 4
    /\ lastCall.results[2] = lastCall.hits[3]
    /\ lastCall.results[3] = lastCall.hits[2]

\* the lower-cased q occurs in the lower-cased s at the 0-based offset p
OccursAt(s, q, p) ==
    /\ p + Len(q) <= Len(s)
    /\ \A k \in 1..Len(q) : LowerChar(s[p + k]) = LowerChar(q[k])

\* C20: before the cut, a document contributes one title result (score 1.0,
\* matched text the whole title) iff the lower-cased query occurs in its
\* lower-cased title, and one content result (score 0.8, the offsets of the
\* first occurrence) iff it occurs in its lower-cased content; it
\* contributes nothing else, so at most two results and never two content
\* results.
C20_LocalHits ==
    lastCall.op = "search" =>
        \A x \in OpenAtStart :
            \A e \in 1..Len(active_contexts[x].documents) :
                LET d == docs[active_contexts[x].documents[e].ref]
                    q == lastCall.query
                    hits == lastCall.hits
                    mine == { k \in 1..Len(hits) : hits[k].document_id = d.id }
                    titles == { k \in mine : hits[k].relevance_score = TitleScore }
                    contents == { k \in mine : hits[k].relevance_score = ContentScore }
                    inTitle == \E p \in 0..Len(d.title) : OccursAt(d.title, q, p)
                    inContent == \E p \in 0..Len(d.content) : OccursAt(d.content, q, p)
                IN  /\ mine = titles \cup contents
                    /\ Cardinality(titles) = (IF inTitle THEN 1 ELSE 0)
                    /\ Cardinality(contents) = (IF inContent THEN 1 ELSE 0)
                    /\ \A k \in titles : hits[k].matched_text = d.title
                    /\ \A k \in contents :
                           \E p \in 0..Len(d.content) :
                               /\ OccursAt(d.content, q, p)
                               /\ \A r \in 0..(p - 1) : ~OccursAt(d.content, q, r)
                               /\ hits[k].position =
                                     Some([start |-> p, end |-> p + Len(q)])

\* a document matched in its title only through lower-casing and in its
\* content at two offsets gave one title and one content result
C20_Witness ==
    /\ lastCall.op = "search"
    /\ lastCall.query = << "b", "a" >>
    /\ \E k \in 1..(Len(lastCall.hits) - 1) :
          /\ lastCall.hits[k].document_id = lastCall.hits[k + 1].document_id
          /\ lastCall.hits[k].matched_text = << "b", "A" >>
          /\ lastCall.hits[k + 1].position = Some([start |-> 0, end |-> 2])
          /\ OccursAt(docs[lastCall.hits[k].document_id].content, lastCall.query, 2)


\* C21: a content hit at offset p of a query of length q in a content of
\* length n has position {start: p, end: p + q}, matched text
\* content[p : p + q] and context content[max(0, p - 50) : min(n, p + q + 50)],
\* with an ellipsis in front exactly when the window starts after the
\* content's start and one behind exactly when it ends before the content's
\* end; "time" in "Once upon a time" gives one result, a content result of
\* score 0.8 whose context is the whole content.
C21_ContentContext ==
    lastCall.op = "search" =>
        /\ \A k \in 1..Len(lastCall.hits) :
               lastCall.hits[k].relevance_score = ContentScore =>
                 LET h == lastCall.hits[k]
                     content == docs[h.document_id].content
                     n == Len(content)
                     q == Len(lastCall.query)
                     p == Val(h.position).start
                     lo == IF p - 50 > 0 THEN p - 50 ELSE 0
                     hi == IF p + q + 50 < n THEN p + q + 50 ELSE n
                     dots == << ".", ".", "." >>
                 IN  /\ Val(h.position).end = p + q
                     /\ h.matched_text = [i \in 1..q |-> content[p + i]]
                     /\ h.context =
                           (IF lo > 0 THEN dots ELSE << >>)
                           \o [i \in 1..(hi - lo) |-> content[lo + i]]
                           \o (IF hi < n THEN dots ELSE << >>)
        /\ ( /\ lastCall.query = << "t", "i", "m", "e" >>
             /\ Len(docs) = 1
             /\ docs[1].content = OnceUponATime ) =>
               /\ Len(lastCall.hits) = 1
               /\ lastCall.hits[1].relevance_score = ContentScore
               /\ lastCall.hits[1].context = OnceUponATime

\* a match with 51 characters on each side was reported with both ellipses
C21_Witness ==
    /\ lastCall.op = "search"
    /\ \E k \in 1..Len(lastCall.hits) :
          /\ lastCall.hits[k].position = Some([start |-> 51, end |-> 53])
          /\ Len(lastCall.hits[k].context) = 3 + 102 + 3


-----------------------------------------------------------------------------
(* SearchService.search with filters, on two documents that both match the *)
(* query in their title: a document was searched iff it has a result       *)

\* (tags, created_at, file_path) of the documents filtered
Shelf ==
    { {}, {"law"}, {"law", "tax"} } \X { 1, 2, 3 }
        \X { None, Some(UploadPath(1, UploadName)) }

\* date bounds: none, the instant 2, a string fromisoformat rejects, and the
\* instant 2 written with a UTC offset
DateInputs ==
    { None, Some([iso |-> TRUE, aware |-> FALSE, t |-> 2]),
      Some([iso |-> FALSE, aware |-> FALSE, t |-> 0]),
      Some([iso |-> TRUE, aware |-> TRUE, t |-> 2]) }

FilterInputs ==
    { None } \cup
    { Some([tags |-> tg, date_from |-> df, date_to |-> dt, has_file |-> hf,
            other |-> o]) :
        tg \in { None, Some({}), Some({"tax"}), Some({"law", "tax"}) },
        df \in DateInputs,
        dt \in DateInputs \ { Some([iso |-> FALSE, aware |-> FALSE, t |-> 0]) },
        hf \in { None, Some(TRUE), Some(FALSE) },
        o \in BOOLEAN }

InitFilters ==
    /\ now = 0
    /\ \E pick \in [1..2 -> Shelf] :
          /\ docs = [i \in 1..2 |->
                       [NewDocument(i, Title1, Content1) EXCEPT
                          !.tags = pick[i][1],
                          !.created_at = pick[i][2],
                          !.file_path = pick[i][3]]]
          /\ files = { Val(pick[i][3]) : i \in { j \in 1..2 : pick[j][3] # None } }
    /\ active_contexts =
          [x \in OpenAtStart |->
             [NewContext EXCEPT
                !.documents = [i \in 1..2 |-> [id |-> i, ref |-> i]]]]
    /\ uuid_count = 2
    /\ annos = EmptyWorld.annos
    /\ tagsets = EmptyWorld.sets
    /\ history = << >>
    /\ position = -1
    /\ lastCall = [op |-> "init", filters |-> None, results |-> << >>]
    /\ discarded = {}
    /\ failed = {}
    /\ streak = NoStreak
    /\ redoRun = NoRun
    /\ lastExec = NoExec
    /\ session = NoSessions
    /\ inflight = NoCalls
    /\ reverted = {}

\* search_service.search(Title1, context.documents, filters=f), once on each
\* pair of documents
CallFilteredSearch ==
    /\ lastCall.op = "init"
    /\ \E x \in OpenAtStart, f \in FilterInputs :
          lastCall' = [ op |-> "filtered_search", filters |-> f,
                        results |-> search(World, Title1,
                                           active_contexts[x].documents, None,
                                           DefaultMaxResults, f) ]
    /\ UNCHANGED << active_contexts, docs, annos, files, uuid_count, tagsets,
                    history, position, discarded, failed, now, streak, redoRun,
                    lastExec,
                    session, inflight, reverted >>

NextFilters == CallFilteredSearch

SpecFilters == InitFilters /\ [][NextFilters]_vars

\* the documents the last search searched: those it returned a result for
Searched == { lastCall.results[k].document_id : k \in 1..Len(lastCall.results) }

\* C22 as stated: a document is searched iff it satisfies every recognised
\* filter supplied: it shares a tag with the tags list, its created_at is not
\* before date_from and not after date_to, and it has a file when has_file
\* is true and none when it is false; a malformed date bound and an
\* unrecognised key exclude nothing.
C22_FiltersAsStated ==
    (lastCall.op = "filtered_search" /\ lastCall.filters # None) =>
        LET f == Val(lastCall.filters)
        IN  \A i \in 1..Len(docs) :
                docs[i].id \in Searched <=>
                    /\ f.tags # None =>
                           \E t \in Val(f.tags) : t \in docs[i].tags
                    /\ (f.date_from # None /\ Val(f.date_from).iso) =>
                           docs[i].created_at >= Val(f.date_from).t
                    /\ (f.date_to # None /\ Val(f.date_to).iso) =>
                           docs[i].created_at <= Val(f.date_to).t
                    /\ f.has_file = Some(TRUE) => docs[i].file_path # None
                    /\ f.has_file = Some(FALSE) => docs[i].file_path = None

\* C22, amended: as stated, but an empty tags list excludes no document, and
\* neither does a date bound written with a UTC offset.
C22_Filters ==
    (lastCall.op = "filtered_search" /\ lastCall.filters # None) =>
        LET f == Val(lastCall.filters)
            Bound(b) == b # None /\ Val(b).iso /\ ~Val(b).aware
        IN  \A i \in 1..Len(docs) :
                docs[i].id \in Searched <=>
                    /\ (f.tags # None /\ Val(f.tags) # {}) =>
                           \E t \in Val(f.tags) : t \in docs[i].tags
                    /\ Bound(f.date_from) =>
                           docs[i].created_at >= Val(f.date_from).t
                    /\ Bound(f.date_to) =>
                           docs[i].created_at <= Val(f.date_to).t
                    /\ f.has_file = Some(TRUE) => docs[i].file_path # None
                    /\ f.has_file = Some(FALSE) => docs[i].file_path = None

\* all four recognised filters were supplied and kept one document of two
C22_Witness ==
    /\ lastCall.op = "filtered_search" /\ lastCall.filters # None
    /\ Val(lastCall.filters).tags = Some({"law", "tax"})
    /\ Val(lastCall.filters).date_from = Some([iso |-> TRUE, aware |-> FALSE, t |-> 2])
    /\ Val(lastCall.filters).date_to = Some([iso |-> TRUE, aware |-> FALSE, t |-> 2])
    /\ Val(lastCall.filters).has_file = Some(TRUE)
    /\ Searched = {2}
    /\ docs[1].tags = {"law"} /\ docs[1].created_at = 1


\* C23: HYBRID search returns at most max_results results, at most one per
\* document id, each the first result for its document in the LOCAL list
\* followed by the SEMANTIC list, its context prefixed with the hybrid
\* marker.
C23_Hybrid ==
    (lastCall.op = "provider_search" /\ lastCall.provider = "HYBRID") =>
        LET rs == lastCall.results
            all == lastCall.local \o lastCall.semantic
        IN  /\ Len(rs) <= lastCall.max_results
            /\ \A i \in 1..Len(rs), j \in 1..Len(rs) :
                   rs[i].document_id = rs[j].document_id => i = j
            /\ \A i \in 1..Len(rs) :
                   /\ Len(rs[i].context) >= Len(HybridMarker)
                   /\ SubSeq(rs[i].context, 1, Len(HybridMarker)) = HybridMarker
                   /\ \E k \in 1..Len(all) :
                          /\ all[k].document_id = rs[i].document_id
                          /\ \A l \in 1..(k - 1) :
                                 all[l].document_id # rs[i].document_id
                          /\ rs[i] = [all[k] EXCEPT !.context = HybridMarker \o @]

\* both lists held three results for two documents, and the hybrid search
\* returned one for each document
C23_Witness ==
    /\ lastCall.op = "provider_search" /\ lastCall.provider = "HYBRID"
    /\ Len(lastCall.local) = 3
    /\ Len(lastCall.semantic) = 3
    /\ Len(lastCall.results) = 2


-----------------------------------------------------------------------------
(* UserProfile.add_viewed_document and DialogueService.set_active_document *)
(* called on a workspace of eleven documents, one more than the list keeps *)

\* the recently viewed list of the open workspace's profile (empty when no
\* profile is attached)
Recent ==
    LET p == active_contexts["c1"].user_profile
    IN  IF p = None THEN << >> ELSE Val(p).recently_viewed_documents

\* the ids the next call views: the lowest id not in the list and the one
\* in the middle of the list
ViewChoices ==
    { CHOOSE i \in 1..(RecentCap + 1) :
        /\ FirstIndexOf(Recent, i) = 0
        /\ \A j \in 1..(i - 1) : FirstIndexOf(Recent, j) > 0 }
    \cup { Recent[k] : k \in { (Len(Recent) + 1) \div 2 } \ {0} }

\* an id that names no document
AbsentId == RecentCap + 2

InitProfile ==
    /\ now = 0
    /\ docs = [i \in 1..(RecentCap + 1) |-> NewDocument(i, Title1, Content1)]
    /\ \E p \in { None, Some(NewProfile) } :
          active_contexts =
             [x \in OpenAtStart |->
                [NewContext EXCEPT
                   !.documents = [i \in 1..(RecentCap + 1) |-> [id |-> i, ref |-> i]],
                   !.user_profile = p]]
    /\ uuid_count = RecentCap + 1
    /\ annos = EmptyWorld.annos
    /\ files = {}
    /\ tagsets = EmptyWorld.sets
    /\ history = << >>
    /\ position = -1
    /\ lastCall = [op |-> "init", context_id |-> "", id |-> None, result |-> TRUE]
    /\ discarded = {}
    /\ failed = {}
    /\ streak = NoStreak
    /\ redoRun = NoRun
    /\ lastExec = NoExec
    /\ session = NoSessions
    /\ inflight = NoCalls
    /\ reverted = {}

\* context.user_profile.add_viewed_document(id)
CallAddViewed ==
    /\ now < MaxViews
    /\ active_contexts["c1"].user_profile # None
    /\ \E id \in ViewChoices \cup {AbsentId} :
          /\ active_contexts' =
                [active_contexts EXCEPT !["c1"].user_profile =
                    Some(UserProfile_add_viewed_document(Val(@), id))]
          /\ lastCall' = [op |-> "add_viewed_document", context_id |-> "c1",
                          id |-> Some(id), result |-> TRUE]
    /\ now' = now + 1
    /\ UNCHANGED << docs, annos, files, uuid_count, tagsets, history, position,
                    discarded, failed, streak, redoRun,
                    lastExec,
                    session, inflight, reverted >>

\* dialogue_service.set_active_document(x, id)
CallSetActive ==
    /\ now < MaxViews
    /\ \E x \in Contexts,
          id \in { None, Some(AbsentId) } \cup { Some(i) : i \in ViewChoices } :
          LET r == set_active_document(World, x, id)
          IN  /\ active_contexts' = r.w.ctx
              /\ lastCall' = [op |-> "set_active_document", context_id |-> x,
                              id |-> id, result |-> r.ok]
    /\ now' = now + 1
    /\ UNCHANGED << docs, annos, files, uuid_count, tagsets, history, position,
                    discarded, failed, streak, redoRun,
                    lastExec,
                    session, inflight, reverted >>

NextProfile ==
    \/ CallAddViewed
    \/ CallSetActive

SpecProfile == InitProfile /\ [][NextProfile]_vars


\* C24: after any add_viewed_document calls and successful
\* set_active_document calls the recently viewed list has at most 10 entries
\* and no id twice, and a view puts its id first and leaves the others in
\* their order (dropping from the end what exceeds 10).
C24_RecentlyViewed ==
    [][ /\ Len(Recent') <= 10
        /\ \A i \in 1..Len(Recent'), j \in 1..Len(Recent') :
               Recent'[i] = Recent'[j] => i = j
        /\ ( /\ active_contexts["c1"].user_profile # None
             /\ lastCall'.context_id = "c1" /\ lastCall'.result
             /\ lastCall'.id # None ) =>
               LET id == Val(lastCall'.id)
                   Other(x) == x # id
                   others == SelectSeq(Recent, Other)
               IN  /\ Recent'[1] = id
                   /\ Len(Recent') >= Len(Recent)
                   /\ Tail(Recent') = SubSeq(others, 1, Len(Recent') - 1) ]_vars

\* an eleventh document was viewed through set_active_document and the
\* oldest entry left the list
C24_Witness ==
    /\ lastCall.op = "set_active_document" /\ lastCall.result
    /\ Len(Recent) = 10
    /\ Recent[1] = 11
    /\ FirstIndexOf(Recent, 1) = 0

\* C25: set_active_document(id) returns false and changes neither
\* active_document_id nor the recently viewed list when id names no
\* document of the workspace (or the workspace does not exist); with None or
\* a present id it returns true and sets active_document_id, and the view is
\* recorded exactly when a profile is attached and id is a document id.
C25_SetActiveDocument ==
    [][ lastCall'.op = "set_active_document" =>
            LET x == lastCall'.context_id
                id == lastCall'.id
                ids == { active_contexts[x].documents[i].id :
                           i \in 1..Len(active_contexts[x].documents) }
            IN  IF x \notin DOMAIN active_contexts
                THEN ~lastCall'.result /\ active_contexts' = active_contexts
                ELSE IF id # None /\ Val(id) \notin ids
                THEN /\ ~lastCall'.result
                     /\ active_contexts'[x].active_document_id =
                           active_contexts[x].active_document_id
                     /\ active_contexts'[x].user_profile =
                           active_contexts[x].user_profile
                ELSE /\ lastCall'.result
                     /\ active_contexts'[x].active_document_id = id
                     /\ IF id # None /\ active_contexts[x].user_profile # None
                        THEN Recent'[1] = Val(id)
                        ELSE active_contexts'[x].user_profile =
                               active_contexts[x].user_profile ]_vars

\* an id that names no document was refused while a document was active
\* and the list held views
C25_Witness ==
    /\ lastCall.op = "set_active_document" /\ ~lastCall.result
    /\ lastCall.context_id = "c1"
    /\ active_contexts["c1"].active_document_id # None
    /\ Len(Recent) >= 2


-----------------------------------------------------------------------------
(* Claims about execute() directly followed by undo(), under Spec           *)

\* the step is a successful undo() of the command of class `kind` that the
\* call before it executed (through execute_command or redo)
UndoesLastExec(kind) ==
    /\ lastCall'.op = "undo" /\ lastCall'.result
    /\ lastExec.cid = Val(lastCall'.invoked)
    /\ CmdById(history, lastExec.cid).kind = kind

\* C26: after execute() and then undo() of a SearchDocumentsCommand, first
\* or redone, the workspace's stored results are what they were before the
\* execute(): for its query the prior list, or no entry when there was none,
\* and for every other query the same list.
C26_SearchUndoRestores ==
    [][ UndoesLastExec("SearchDocuments") =>
            LET x == CmdById(history, lastExec.cid).context_id
            IN  Graph(World)'[x].active_search_results =
                    lastExec.graph[x].active_search_results ]_vars

\* a search that replaced a stored list of its query was redone and undone
\* in a workspace holding the results of another query
C26_Witness ==
    /\ lastCall.op = "undo" /\ lastCall.result
    /\ redoRun.redos = 0 /\ Len(redoRun.bases) = 1 /\ streak = NoStreak
    /\ history[position + 2].kind = "SearchDocuments"
    /\ history[position + 2].previous_results # None
    /\ DOMAIN active_contexts["c1"].active_search_results
          = { StoredQuery, history[position + 2].query }


\* the tags, in workspace x of graph g, of the document with the given id
\* (none when the workspace holds no such document)
TagsIn(g, x, id) ==
    IF x \in DOMAIN g
    THEN UNION { d.tags : d \in { e \in g[x].documents : e.id = id } }
    ELSE {}

\* C27: the history records a RemoveTagCommand only when its execute() found
\* the tag on the document (an execute() on a document that lacks the tag
\* returns false and is not recorded); an undo() that directly follows the
\* successful execute() leaves the document with exactly the tags it had
\* before that execute(), the removed tag among them; and no undo() of a
\* RemoveTagCommand adds anything but its own tag, and that only when the
\* execute() it reverts found the tag present.
C27_RemoveTagUndo ==
    [][ /\ ( /\ lastCall'.op = "execute_command"
             /\ Len(history') > 0
             /\ lastCall'.invoked = Some(history'[Len(history')].cid)
             /\ history'[Len(history')].kind = "RemoveTag"
             /\ history'[Len(history')].cid \notin CidSet(history) )
           => LET c == history'[Len(history')]
              IN  /\ lastCall'.result
                  /\ c.tag \in TagsIn(Graph(World), c.context_id, c.document_id)
                  /\ c.tag \notin TagsIn(Graph(World)', c.context_id, c.document_id)
        /\ UndoesLastExec("RemoveTag")
           => LET c == CmdById(history, lastExec.cid)
              IN  /\ TagsIn(Graph(World)', c.context_id, c.document_id) =
                        TagsIn(lastExec.graph, c.context_id, c.document_id)
                  /\ c.tag \in TagsIn(Graph(World)', c.context_id, c.document_id)
        /\ ( /\ lastCall'.op = "undo"
             /\ lastCall'.invoked # None
             /\ CmdById(history, Val(lastCall'.invoked)).kind = "RemoveTag" )
           => LET c == CmdById(history, Val(lastCall'.invoked))
                  before == TagsIn(Graph(World), c.context_id, c.document_id)
                  after == TagsIn(Graph(World)', c.context_id, c.document_id)
              IN  /\ after \subseteq before \cup {c.tag}
                  /\ before \subseteq after
                  /\ (after # before => c.tag_was_present /\ lastCall'.result)
      ]_vars

\* an undo has just put back the tag a RemoveTagCommand removed
C27_Witness ==
    /\ lastCall.op = "undo" /\ lastCall.result
    /\ position + 2 <= Len(history)
    /\ history[position + 2].kind = "RemoveTag"
    /\ Val(lastCall.invoked) = history[position + 2].cid
    /\ history[position + 2].tag \in
          TagsIn(Graph(World), history[position + 2].context_id,
                 history[position + 2].document_id)

\* the file fields of the document with the given id in workspace x of graph g
FileFieldsIn(g, x, id) ==
    LET d == CHOOSE e \in g[x].documents : e.id = id
    IN  << d.file_path, d.file_name, d.file_type, d.file_size >>

\* C28: when undo() directly follows the execute() of an UpdateDocumentCommand
\* that attached a new file, the document's file_path, file_name, file_type
\* and file_size are what they were before the update and the file the update
\* wrote no longer exists, also when the new file has the name of the file
\* attached before.
C28_UpdateFileUndo ==
    [][ ( /\ UndoesLastExec("UpdateDocument")
          /\ CmdById(history, lastExec.cid).file # None
          /\ Truthy(CmdById(history, lastExec.cid).file_name) )
        => LET c == CmdById(history, lastExec.cid)
           IN  /\ FileFieldsIn(Graph(World)', c.context_id, c.document_id) =
                     FileFieldsIn(lastExec.graph, c.context_id, c.document_id)
               /\ UploadPath(c.document_id, Val(c.file_name)) \notin files'
      ]_vars

(***************************************************************************)
(* DocumentService.update_document called directly on one document, the    *)
(* clock ticking after every call                                          *)

\* the document before the first call: without a file, or with one attached
StartDocuments ==
    { [ NewDocument(1, Title0, Content0) EXCEPT
          !.tags = {"law"}, !.created_at = 0, !.updated_at = 0 ],
      [ NewDocument(1, Title0, Content0) EXCEPT
          !.tags = {"law"}, !.created_at = 0, !.updated_at = 0,
          !.file_path = Some(UploadPath(1, UploadName)),
          !.file_name = Some(UploadName),
          !.file_type = Some("text/plain"),
          !.file_size = Some(2) ] }

\* (file, file_name, file_type) of a call: no file; a file with name and
\* type; a file with a name and no type; a file without a name; a file whose
\* write fails
FileArgs ==
    { [file |-> None, file_name |-> None, file_type |-> None],
      [file |-> Some([size |-> 3, consumed |-> FALSE, broken |-> FALSE]),
       file_name |-> Some(UploadName), file_type |-> Some("text/plain")],
      [file |-> Some([size |-> 3, consumed |-> FALSE, broken |-> FALSE]),
       file_name |-> Some(UploadName), file_type |-> None],
      [file |-> Some([size |-> 3, consumed |-> FALSE, broken |-> FALSE]),
       file_name |-> None, file_type |-> None],
      [file |-> Some([size |-> 3, consumed |-> FALSE, broken |-> TRUE]),
       file_name |-> Some(UploadName), file_type |-> Some("text/plain")] }

NoArgs ==
    [ title |-> None, content |-> None, tags |-> None,
      file |-> None, file_name |-> None, file_type |-> None ]

InitUpdate ==
    /\ now = 1
    /\ \E d \in StartDocuments :
          /\ docs = << d >>
          /\ files = IF d.file_path # None THEN {Val(d.file_path)} ELSE {}
    /\ active_contexts = EmptyWorld.ctx
    /\ annos = EmptyWorld.annos
    /\ uuid_count = 1
    /\ tagsets = EmptyWorld.sets
    /\ history = << >>
    /\ position = -1
    /\ lastCall = [op |-> "init", raised |-> FALSE, args |-> NoArgs]
    /\ discarded = {}
    /\ failed = {}
    /\ streak = NoStreak
    /\ redoRun = NoRun
    /\ lastExec = NoExec
    /\ session = NoSessions
    /\ inflight = NoCalls
    /\ reverted = {}

\* document_service.update_document(document, ...), the tags argument being
\* a set the caller has just built
CallUpdateDocument ==
    /\ now <= MaxUpdates
    /\ \E title \in {None, Some(Title1)}, content \in {None, Some(Content1)},
          tags \in {None, Some({"tax"})}, f \in FileArgs :
          LET handle == IF tags = None THEN None
                        ELSE Some([key |-> now, init |-> Val(tags)])
              r == update_document(World, 1, title, content, f.file,
                                   f.file_name, f.file_type, handle)
          IN  /\ docs' = r.w.docs
              /\ files' = r.w.files
              /\ tagsets' = r.w.sets
              /\ lastCall' = [ op |-> "update_document", raised |-> r.w.raised,
                               args |-> [ title |-> title, content |-> content,
                                          tags |-> tags, file |-> f.file,
                                          file_name |-> f.file_name,
                                          file_type |-> f.file_type ] ]
    /\ now' = now + 1
    /\ UNCHANGED << active_contexts, annos, uuid_count, history, position,
                    discarded, failed, streak, redoRun, lastExec,
                    session, inflight, reverted >>

NextUpdate == CallUpdateDocument

SpecUpdate == InitUpdate /\ [][NextUpdate]_vars

\* C29: a call of update_document that returns sets title, content and tags
\* to the argument when it is supplied and leaves them otherwise; sets
\* file_path, file_name and file_size when a file is supplied with a file
\* name and leaves them otherwise; leaves file_type at its previous value
\* unless a file_type is supplied with them; leaves id, annotations,
\* citations and created_at; and sets updated_at to the time of the call.
C29_UpdateFrame ==
    [][ (lastCall'.op = "update_document" /\ ~lastCall'.raised) =>
            LET a == lastCall'.args
                d == View(World, 1)
                e == View(World, 1)'
                attached == a.file # None /\ Truthy(a.file_name)
            IN  /\ e.title = IF a.title # None THEN Val(a.title) ELSE d.title
                /\ e.content = IF a.content # None THEN Val(a.content)
                                ELSE d.content
                /\ e.tags = IF a.tags # None THEN Val(a.tags) ELSE d.tags
                /\ IF attached
                   THEN /\ e.file_path = Some(UploadPath(d.id, Val(a.file_name)))
                        /\ e.file_name = a.file_name
                        /\ e.file_size # None
                        /\ Val(e.file_path) \in files'
                   ELSE /\ e.file_path = d.file_path
                        /\ e.file_name = d.file_name
                        /\ e.file_size = d.file_size
                        /\ files' = files
                /\ e.file_type = IF attached /\ a.file_type # None
                                  THEN a.file_type ELSE d.file_type
                /\ e.id = d.id
                /\ e.annotations = d.annotations
                /\ e.citations = d.citations
                /\ e.created_at = d.created_at
                /\ e.updated_at = now
                /\ e.updated_at > d.updated_at ]_vars

\* the identity of the entity a command made at its last execute(): the id of
\* self.document or of self.annotation (0, which no entity has, when the
\* command holds none)
CreatedIdentity(c, w) ==
    CASE c.kind = "CreateDocument" -> IF c.document # None
                                      THEN w.docs[Val(c.document)].id ELSE 0
      [] c.kind = "AddAnnotation"  -> IF c.annotation # None
                                      THEN Val(c.annotation) ELSE 0
      [] OTHER                     -> 0

\* C30: a redo() that re-executes an undone CreateDocumentCommand or
\* AddAnnotationCommand and returns true leaves the command holding an entity
\* with the identity the entity had before the redo, which is the identity
\* the commands later in the history were bound to.
C30_RedoKeepsIdentity ==
    [][ \A i \in 1..Len(history) :
          ( /\ lastCall'.op = "redo" /\ lastCall'.result
            /\ lastCall'.invoked = Some(history[i].cid)
            /\ history[i].kind \in {"CreateDocument", "AddAnnotation"} )
          => CreatedIdentity(history'[i], World') =
             CreatedIdentity(history[i], World)
      ]_vars

\* `while n > 0: command_history.undo(); n -= 1`: the cursor after n more
\* calls of undo() from history h, cursor p and world w
RECURSIVE PositionAfterUndos(_, _, _, _)
PositionAfterUndos(h, p, w, n) ==
    IF n = 0 \/ p < 0
    THEN p
    ELSE LET r == CommandHistory_undo(h, p, w)
         IN  PositionAfterUndos(r.history, r.position, r.w, n - 1)

\* C31: in every state reached by execute_command, undo and redo with every
\* workspace still open, calling undo() again and again brings position to
\* -1; three calls for each recorded command are allowed for here, an undo()
\* that succeeds needing one.
C31_UndoReachesStart ==
    DOMAIN active_contexts = OpenAtStart =>
        PositionAfterUndos(history, position, World, 3 * Len(history)) = -1

(***************************************************************************)
(* Two callers of one CommandHistory with no lock (the web layer's         *)
(* process-wide command_history under a threaded server).  A call is made   *)
(* of the reads and writes of self.position and self.history in the order   *)
(* the method's code makes them; a command's own execute() or undo() is one *)
(* step.                                                                    *)

Callers == {"t1", "t2"}

Idle == [pc |-> "idle", p |-> 0, cmd |-> None, n |-> 0]

CallsStarted == inflight["t1"].n + inflight["t2"].n

\* the commands the callers submit, all on the document of the workspace
RaceCommands(cid) ==
    { [ cid |-> cid, kind |-> "UpdateDocument", context_id |-> "c1",
        document_id |-> 1, title |-> Some(Title1), content |-> None,
        file |-> None, file_name |-> None, file_type |-> None, tags |-> None,
        old_title |-> None, old_content |-> None, old_file_path |-> None,
        old_file_name |-> None, old_file_type |-> None,
        old_file_size |-> None, old_tags |-> None ],
      [ cid |-> cid, kind |-> "RemoveTag", context_id |-> "c1",
        document_id |-> 1, tag |-> "law", tag_was_present |-> FALSE ] }

\* Python's self.history[i] as a 1-based index: a negative i counts from the
\* end; 0 stands for IndexError
PyIndex(h, i) ==
    LET k == IF i >= 0 THEN i + 1 ELSE Len(h) + i + 1
    IN  IF k \in 1..Len(h) THEN k ELSE 0

\* Python's self.history[:k]
PySliceTo(h, k) ==
    LET n == IF k >= 0 THEN Min(k, Len(h)) ELSE Max(Len(h) + k, 0)
    IN  SubSeq(h, 1, n)

InitRace ==
    /\ now = 0
    /\ active_contexts = WorldWithDocument.ctx
    /\ docs = WorldWithDocument.docs
    /\ annos = WorldWithDocument.annos
    /\ files = WorldWithDocument.files
    /\ uuid_count = WorldWithDocument.uuid
    /\ tagsets = WorldWithDocument.sets
    /\ history = << >>
    /\ position = -1
    /\ lastCall = [op |-> "init", by |-> "", invoked |-> None, result |-> TRUE]
    /\ discarded = {}
    /\ failed = {}
    /\ streak = NoStreak
    /\ redoRun = NoRun
    /\ lastExec = NoExec
    /\ session = NoSessions
    /\ inflight = [t \in Callers |-> Idle]
    /\ reverted = {}

\* caller t is at step pc and goes on to step next, keeping its locals
Step(t, pc, next) ==
    /\ inflight[t].pc = pc
    /\ inflight' = [inflight EXCEPT ![t].pc = next]

\* the world the command left
WorldBecomes(w) ==
    /\ active_contexts' = w.ctx
    /\ docs' = w.docs
    /\ annos' = w.annos
    /\ files' = w.files
    /\ uuid_count' = w.uuid
    /\ tagsets' = w.sets

WorldStays == UNCHANGED << active_contexts, docs, annos, files, uuid_count, tagsets >>

ObserversStay == UNCHANGED << discarded, failed, now, streak, redoRun, lastExec, session >>

\* a caller enters undo(), redo() or execute_command(cmd)
StartCall ==
    /\ CallsStarted < MaxCalls
    /\ \E t \in Callers :
          /\ inflight[t].pc = "idle"
          /\ \/ \E pc \in {"undo_check", "redo_check"} :
                   inflight' = [inflight EXCEPT ![t].pc = pc, ![t].n = @ + 1]
             \/ \E c \in RaceCommands(CallsStarted + 1) :
                   inflight' = [inflight EXCEPT ![t].pc = "execute_call",
                                                ![t].cmd = Some(c),
                                                ![t].n = @ + 1]
    /\ WorldStays /\ ObserversStay
    /\ UNCHANGED << history, position, lastCall, reverted >>

\* undo: `if self.position >= 0:`
UndoCheck ==
    /\ \E t \in Callers :
          IF position >= 0
          THEN Step(t, "undo_check", "undo_call") /\ UNCHANGED lastCall
          ELSE /\ Step(t, "undo_check", "idle")
               /\ lastCall' = [op |-> "undo", by |-> t, invoked |-> None,
                               result |-> FALSE]
    /\ WorldStays /\ ObserversStay
    /\ UNCHANGED << history, position, reverted >>

\* undo: `result = self.history[self.position].undo()`
UndoCall ==
    /\ \E t \in Callers :
          LET i == PyIndex(history, position)
          IN  IF i = 0
              THEN /\ Step(t, "undo_call", "idle")
                   /\ lastCall' = [op |-> "undo", by |-> t, invoked |-> None,
                                   result |-> FALSE]
                   /\ WorldStays
                   /\ UNCHANGED << history, reverted >>
              ELSE LET r == Command_undo(history[i], World)
                   IN  /\ Step(t, "undo_call", IF r.ok THEN "undo_load" ELSE "idle")
                       /\ WorldBecomes(r.w)
                       /\ history' = [history EXCEPT ![i] = r.c]
                       /\ reverted' = IF r.ok THEN reverted \cup {history[i].cid}
                                      ELSE reverted
                       /\ lastCall' = [op |-> "undo", by |-> t,
                                       invoked |-> Some(history[i].cid),
                                       result |-> r.ok]
    /\ ObserversStay
    /\ UNCHANGED position

\* undo: `self.position -= 1`, the read
UndoLoad ==
    /\ \E t \in Callers :
          /\ inflight[t].pc = "undo_load"
          /\ inflight' = [inflight EXCEPT ![t].pc = "undo_store", ![t].p = position]
    /\ WorldStays /\ ObserversStay
    /\ UNCHANGED << history, position, lastCall, reverted >>

\* undo: `self.position -= 1`, the write
UndoStore ==
    /\ \E t \in Callers :
          /\ Step(t, "undo_store", "idle")
          /\ position' = inflight[t].p - 1
    /\ WorldStays /\ ObserversStay
    /\ UNCHANGED << history, lastCall, reverted >>

\* redo: `if self.position < len(self.history) - 1:`
RedoCheck ==
    /\ \E t \in Callers :
          IF position < Len(history) - 1
          THEN Step(t, "redo_check", "redo_load") /\ UNCHANGED lastCall
          ELSE /\ Step(t, "redo_check", "idle")
               /\ lastCall' = [op |-> "redo", by |-> t, invoked |-> None,
                               result |-> FALSE]
    /\ WorldStays /\ ObserversStay
    /\ UNCHANGED << history, position, reverted >>

\* redo: `self.position += 1`, the read
RedoLoad ==
    /\ \E t \in Callers :
          /\ inflight[t].pc = "redo_load"
          /\ inflight' = [inflight EXCEPT ![t].pc = "redo_store", ![t].p = position]
    /\ WorldStays /\ ObserversStay
    /\ UNCHANGED << history, position, lastCall, reverted >>

\* redo: `self.position += 1`, the write
RedoStore ==
    /\ \E t \in Callers :
          /\ Step(t, "redo_store", "redo_call")
          /\ position' = inflight[t].p + 1
    /\ WorldStays /\ ObserversStay
    /\ UNCHANGED << history, lastCall, reverted >>

\* redo: `return self.history[self.position].execute()`
RedoCall ==
    /\ \E t \in Callers :
          LET i == PyIndex(history, position)
          IN  IF i = 0
              THEN /\ Step(t, "redo_call", "idle")
                   /\ lastCall' = [op |-> "redo", by |-> t, invoked |-> None,
                                   result |-> FALSE]
                   /\ WorldStays
                   /\ UNCHANGED << history, reverted >>
              ELSE LET r == Command_execute(history[i], World)
                   IN  /\ Step(t, "redo_call", "idle")
                       /\ WorldBecomes(r.w)
                       /\ history' = [history EXCEPT ![i] = r.c]
                       /\ reverted' = IF r.ok THEN reverted \ {history[i].cid}
                                      ELSE reverted
                       /\ lastCall' = [op |-> "redo", by |-> t,
                                       invoked |-> Some(history[i].cid),
                                       result |-> r.ok]
    /\ ObserversStay
    /\ UNCHANGED position

\* execute_command: `result = command.execute()`
ExecuteCall ==
    /\ \E t \in Callers :
          /\ inflight[t].pc = "execute_call"
          /\ LET r == Command_execute(Val(inflight[t].cmd), World)
             IN  /\ inflight' = [inflight EXCEPT
                                   ![t].pc = IF r.ok THEN "execute_check" ELSE "idle",
                                   ![t].cmd = Some(r.c)]
                 /\ WorldBecomes(r.w)
                 /\ lastCall' = [op |-> "execute_command", by |-> t,
                                 invoked |-> Some(r.c.cid), result |-> r.ok]
    /\ ObserversStay
    /\ UNCHANGED << history, position, reverted >>

\* execute_command: `if self.position < len(self.history) - 1:`
ExecuteCheck ==
    /\ \E t \in Callers :
          Step(t, "execute_check",
               IF position < Len(history) - 1 THEN "execute_cut" ELSE "execute_append")
    /\ WorldStays /\ ObserversStay
    /\ UNCHANGED << history, position, lastCall, reverted >>

\* execute_command: `self.history = self.history[: self.position + 1]`
ExecuteCut ==
    /\ \E t \in Callers :
          /\ Step(t, "execute_cut", "execute_append")
          /\ history' = PySliceTo(history, position + 1)
    /\ WorldStays /\ ObserversStay
    /\ UNCHANGED << position, lastCall, reverted >>

\* execute_command: `self.history.append(command)`
ExecuteAppend ==
    /\ \E t \in Callers :
          /\ Step(t, "execute_append", "execute_store")
          /\ history' = Append(history, Val(inflight[t].cmd))
    /\ WorldStays /\ ObserversStay
    /\ UNCHANGED << position, lastCall, reverted >>

\* execute_command: `self.position = len(self.history) - 1`
ExecuteStore ==
    /\ \E t \in Callers :
          /\ Step(t, "execute_store", "idle")
          /\ position' = Len(history) - 1
    /\ WorldStays /\ ObserversStay
    /\ UNCHANGED << history, lastCall, reverted >>

NextRace ==
    \/ StartCall
    \/ UndoCheck
    \/ UndoCall
    \/ UndoLoad
    \/ UndoStore
    \/ RedoCheck
    \/ RedoLoad
    \/ RedoStore
    \/ RedoCall
    \/ ExecuteCall
    \/ ExecuteCheck
    \/ ExecuteCut
    \/ ExecuteAppend
    \/ ExecuteStore

SpecRace == InitRace /\ [][NextRace]_vars

\* C32: whichever way the steps of two callers' undo(), redo() and
\* execute_command calls interleave, position stays within -1 ..
\* len(history) - 1 and no command's undo() succeeds a second time before the
\* command has been executed again.
C32_RaceSafe ==
    [][ /\ -1 <= position' /\ position' <= Len(history') - 1
        /\ \A t \in Callers :
              (inflight[t].pc = "undo_call" /\ inflight'[t].pc = "undo_load")
                  => Val(lastCall'.invoked) \notin reverted ]_vars

(***************************************************************************)
(* The web layer: browser sessions, each holding the id of its workspace   *)
(* in session["context_id"], and the one command_history of the process    *)

Sessions == {"s1", "s2"}

\* str(uuid.uuid4()) of create_context: the workspace a session holds first
\* and the one /clear gives it
FirstContext(s) == IF s = "s1" THEN "c1" ELSE "c2"
NextContext(s) == IF s = "s1" THEN "c3" ELSE "c4"

InitWeb ==
    /\ now = 0
    /\ active_contexts = [x \in {FirstContext(s) : s \in Sessions} |-> NewContext]
    /\ docs = << >>
    /\ annos = EmptyWorld.annos
    /\ files = {}
    /\ uuid_count = 0
    /\ tagsets = EmptyWorld.sets
    /\ history = << >>
    /\ position = -1
    /\ lastCall = [op |-> "init", by |-> "", invoked |-> None, result |-> TRUE]
    /\ discarded = {}
    /\ failed = {}
    /\ streak = NoStreak
    /\ redoRun = NoRun
    /\ lastExec = NoExec
    /\ session = [s \in Sessions |-> FirstContext(s)]
    /\ inflight = NoCalls
    /\ reverted = {}

\* the state after the route of session s called the CommandHistory method
\* `op`, r being what the method gave
Responds(op, s, r) ==
    /\ WorldBecomes(r.w)
    /\ history' = r.history
    /\ position' = r.position
    /\ lastCall' = [op |-> op, by |-> s, invoked |-> r.invoked, result |-> r.result]
    /\ discarded' = discarded \cup (CidSet(history) \ CidSet(r.history))
    /\ UNCHANGED << failed, now, streak, redoRun, lastExec, session, inflight,
                    reverted >>

\* POST /documents with a JSON body
PostDocument ==
    /\ Accepted < MaxCmds
    /\ uuid_count < MaxUuid
    /\ \E s \in Sessions :
          LET c == [ cid |-> Accepted + 1, kind |-> "CreateDocument",
                     context_id |-> session[s], title |-> Title0,
                     content |-> Content0, file |-> None, file_name |-> None,
                     file_type |-> None, tags |-> None, document |-> None ]
          IN  Responds("execute_command", s,
                       CommandHistory_execute_command(history, position, c,
                                                      Command_execute(c, World)))

\* PUT /documents/<document_id> with a JSON body that gives a title
PutDocument ==
    /\ Accepted < MaxCmds
    /\ \E s \in Sessions, id \in IssuedIds :
          LET c == [ cid |-> Accepted + 1, kind |-> "UpdateDocument",
                     context_id |-> session[s], document_id |-> id,
                     title |-> Some(Title1), content |-> None, file |-> None,
                     file_name |-> None, file_type |-> None, tags |-> None,
                     old_title |-> None, old_content |-> None,
                     old_file_path |-> None, old_file_name |-> None,
                     old_file_type |-> None, old_file_size |-> None,
                     old_tags |-> None ]
          IN  Responds("execute_command", s,
                       CommandHistory_execute_command(history, position, c,
                                                      Command_execute(c, World)))

\* POST /undo
PostUndo ==
    /\ position \in Int
    /\ \E s \in Sessions :
          Responds("undo", s, CommandHistory_undo(history, position, World))

\* POST /redo
PostRedo ==
    /\ CommandHistory_redo(history, position, World).w.uuid <= MaxUuid
    /\ \E s \in Sessions :
          Responds("redo", s, CommandHistory_redo(history, position, World))

\* POST /clear: close the session's workspace and give it a new one
PostClear ==
    /\ \E s \in Sessions :
          /\ session[s] = FirstContext(s)
          /\ active_contexts' =
                [x \in ((DOMAIN active_contexts) \ {session[s]}) \cup {NextContext(s)} |->
                    IF x = NextContext(s) THEN NewContext ELSE active_contexts[x]]
          /\ session' = [session EXCEPT ![s] = NextContext(s)]
          /\ lastCall' = [op |-> "clear", by |-> s, invoked |-> None, result |-> TRUE]
    /\ UNCHANGED << docs, annos, files, uuid_count, tagsets, history, position,
                    discarded, failed, now, streak, redoRun, lastExec, inflight,
                    reverted >>

NextWeb ==
    \/ PostDocument
    \/ PutDocument
    \/ PostUndo
    \/ PostRedo
    \/ PostClear

SpecWeb == InitWeb /\ [][NextWeb]_vars

\* C33: an undo or a redo requested in a session reaches only a command that
\* was executed against the workspace that session holds; when the commands
\* recorded are all of other workspaces, or of workspaces since closed, the
\* request reaches no command and changes nothing.
C33_OwnTimeline ==
    [][ lastCall'.op \in {"undo", "redo"} =>
            IF lastCall'.invoked # None
            THEN CmdById(history, Val(lastCall'.invoked)).context_id =
                     session[lastCall'.by]
            ELSE position' = position ]_vars

\* C34: when undo() directly follows the execute() of an AddDocumentCommand,
\* the workspace holds the documents it held before the execute(), also when
\* the id of the added document was already in the workspace.
C34_AddDocumentUndo ==
    [][ UndoesLastExec("AddDocument") =>
            LET x == CmdById(history, lastExec.cid).context_id
            IN  Graph(World)'[x].documents = lastExec.graph[x].documents ]_vars

\* C35: when undo() directly follows the execute() of an AddTagCommand, the
\* document has the tags it had before the execute(), also when the tag was
\* already on the document.
C35_AddTagUndo ==
    [][ UndoesLastExec("AddTag") =>
            LET c == CmdById(history, lastExec.cid)
            IN  TagsIn(Graph(World)', c.context_id, c.document_id) =
                    TagsIn(lastExec.graph, c.context_id, c.document_id) ]_vars

\* the ordered annotation list, each annotation with its citations, of the
\* document with the given id in workspace x of graph g
AnnotationsIn(g, x, id) ==
    (CHOOSE e \in g[x].documents : e.id = id).annotations

\* C36: when undo() directly follows the execute() of a
\* RemoveAnnotationCommand, the document's annotation list is the list before
\* the execute(): the removed annotation, with its citations, is at the
\* index it had and the others are in their order.
C36_RemoveAnnotationUndo ==
    [][ UndoesLastExec("RemoveAnnotation") =>
            LET c == CmdById(history, lastExec.cid)
            IN  AnnotationsIn(Graph(World)', c.context_id, c.document_id) =
                    AnnotationsIn(lastExec.graph, c.context_id, c.document_id)
      ]_vars

\* C37: as long as no file write has failed, every document held by a
\* workspace that has a file_path has a file at that path, after every
\* execute, undo and redo.
C37_AttachedFileExists ==
    failed = {} =>
        \A x \in DOMAIN active_contexts :
            \A i \in 1..Len(active_contexts[x].documents) :
                LET d == docs[active_contexts[x].documents[i].ref]
                IN  d.file_path # None => Val(d.file_path) \in files

(***************************************************************************)
(* The command engine together with DialogueService.set_active_document    *)

\* dialogue_service.set_active_document(x, id) for an open workspace x
SetActiveDocument ==
    \E x \in DOMAIN active_contexts, id \in {None} \cup {Some(n) : n \in DocIds} :
        LET r == set_active_document(World, x, id)
        IN  /\ active_contexts' = r.w.ctx
            /\ lastCall' = [op |-> "set_active_document", result |-> r.ok,
                            invoked |-> None, raised |-> FALSE]
            /\ streak' = NoStreak
            /\ redoRun' = NoRun
            /\ lastExec' = NoExec
            /\ UNCHANGED << docs, annos, files, uuid_count, tagsets, history,
                            position, discarded, failed, now, session, inflight,
                            reverted >>

NextActive ==
    \/ Next
    \/ SetActiveDocument

SpecActive == Init /\ [][NextActive]_vars

\* C38: in every workspace active_document_id is None or the id of a
\* document the workspace holds.
C38_ActiveDocumentPresent ==
    \A x \in DOMAIN active_contexts :
        LET c == active_contexts[x]
        IN  c.active_document_id # None =>
                \E i \in 1..Len(c.documents) :
                    c.documents[i].id = Val(c.active_document_id)

\* the ids of the searched workspace's documents whose title or content
\* holds the query, case ignored
MatchingDocuments(query) ==
    { docs[i].id : i \in { j \in 1..Len(docs) :
                              \/ Contains(Lower(docs[j].title), Lower(query))
                              \/ Contains(Lower(docs[j].content), Lower(query)) } }

\* C39: when no more than max_results different documents match the query,
\* the HYBRID search returns a result for each of them.
C39_HybridKeepsEveryDocument ==
    ( /\ lastCall.op = "provider_search" /\ lastCall.provider = "HYBRID"
      /\ Cardinality(MatchingDocuments(lastCall.query)) <= lastCall.max_results )
    => \A id \in MatchingDocuments(lastCall.query) :
           \E k \in 1..Len(lastCall.results) :
               lastCall.results[k].document_id = id

-----------------------------------------------------------------------------
(* AddCitationCommand over citations whose fields vary: texts and sources  *)
(* with the separator in them, fields given and absent                     *)

\* the (text, source, page, section, url) a caller cites with; page is the
\* decimal text of the int, as the f-string formats it
CitationFields ==
    [ text : { << "a" >>, << "a", "|", "b" >> },
      source : { << "b" >>, << "b", "|", "b" >> },
      page : { None, Some(<< "1" >>) },
      section : { None, Some(<< "N", "o", "n", "e" >>) },
      url : { None } ]

\* command_history.execute_command(AddCitationCommand(...)) on the open
\* workspace's document, or on its first annotation
SubmitCitation ==
    /\ Accepted < MaxCmds
    /\ \E k \in CitationFields, a \in {None, Some(2)} :
        execute_command(
            [ cid |-> Accepted + 1, kind |-> "AddCitation", context_id |-> "c1",
              document_id |-> 1, text |-> k.text, source |-> k.source,
              page |-> k.page, section |-> k.section, url |-> k.url,
              annotation_id |-> a, citation |-> None ])

NextCitation ==
    \/ SubmitCitation
    \/ undo
    \/ redo

SpecCitation == Init /\ [][NextCitation]_vars

\* C40: citations whose (text, source, page, section, url) differ have
\* different ids, so that removing by id removes the content that was added.
C40_CitationIdsDistinct ==
    \A c1 \in AllCitations, c2 \in AllCitations :
        c1.id = c2.id =>
            /\ c1.text = c2.text /\ c1.source = c2.source /\ c1.page = c2.page
            /\ c1.section = c2.section /\ c1.url = c2.url

====
